---- MODULE Spec2Model ----
(***************************************************************************)
(* Presence and session reconciliation engine of the RustLink bot          *)
(* (src/bot.js, first bot variant, lines 1-1378).                          *)
(*                                                                         *)
(* The model covers the spy tracker (watchedPlayers, allServerPlayers),    *)
(* its two producers (team snapshots of the game feed, BattleMetrics       *)
(* polls), the watched_players.json file, the dashboard actions addSpy and *)
(* removeSpy, the game-feed connection with its timers, and a restart of   *)
(* the process.                                                            *)
(*                                                                         *)
(* Conventions.                                                            *)
(*  - Every handler runs to completion (Node's event loop), so a handler   *)
(*    is one action.  A handler works on a record h that holds the state   *)
(*    it mutates; Commit writes h back.                                    *)
(*  - Date.now() is the variable now.  Where the code reads the clock      *)
(*    twice for one session entry (ms from the first read, end from the    *)
(*    second) the clock may advance by sk in {0,1} between the two reads.  *)
(*  - null / undefined timestamps are Null (0); Date.now() is never 0.     *)
(*  - A JS Map is a function on the subset of Keys it holds; forEach       *)
(*    visits the keys in the order KeyOrder.                               *)
(***************************************************************************)
EXTENDS Integers, Sequences, FiniteSets, TLC

\* ------------------------------------------------------------------ bounds
MaxTime == 2
MaxSessions == 1
MaxRequests == 2

\* ------------------------------------------------------------ input domains
Null == 0

SteamIds == {"s1"}
BMPlayerIds == {"1"}
BMKey(id) == "bm_" \o id
BMKeys == {BMKey(id) : id \in BMPlayerIds}
Keys == SteamIds \cup BMKeys
KeyOrder == <<"s1", "bm_1">>
startsWithBM_Always(key) == TRUE

\* key.startsWith('bm_')
startsWithBM(key) == key \in BMKeys

Names == {"a"}

VARIABLES
  now,              \* Date.now()
  watchedPlayers,   \* Map steamId -> watched record
  allServerPlayers, \* Map steamId -> [name, online]
  disk,             \* watched_players.json: [exists, arr]
  fsWritable,       \* whether fs.writeFileSync succeeds
  rustConnected,    \* let rustConnected
  connPending,      \* a 'connected' handler is suspended at its awaits
  retryPending,     \* a reconnect setTimeout is armed
  connecting,       \* rustplus.connect() was called and neither 'connected' nor 'disconnected' has fired yet
  bmTimers,         \* live setInterval(fetchBMPlayers) timers: 0, 1, or 2 for "several"
  lastOp,           \* the last step: a poll with its outcome and listing, a restart, or "other"
  emitted,          \* the spyEvents broadcast by the last step
  unsaved,          \* keys whose online flag changed after the handler's last save
  unbroadcast,      \* keys whose online flag changed after the handler's last broadcast
  savedFrom,        \* the in-memory watch list at the last successful save
  joinRequests,     \* let joinRequests: newest first
  clanMembers,      \* let clanMembers
  joinFile,         \* join_requests.json
  membersFile,      \* clan_members.json
  envAdminSet,      \* whether ADMIN_PASSWORD or ADMIN_CODE is set in the environment
  ledgerOp,         \* the last ledger handler: its name, its input and its reply
  sock,             \* per dashboard socket: "none", or in wsClients as "open", "closing", "broken"
  delivered,        \* per dashboard socket: the messages the last step wrote to it
  firstMsg,         \* per dashboard socket: the type of the first message written to it
  published,        \* the messages the last step handed to send / wsBroadcast
  bootFiles,        \* per collection: what its file holds when the process starts
  bootMem,          \* per collection: what module load left in memory
  booted,           \* the module has loaded (the three load calls have run)
  exited,           \* process.exit(1) was called
  crash,            \* the last error handed to a process-level handler, and its outcome
  protoText,        \* the text of rustplus.proto, as a sequence of lexical tokens
  patchLog          \* the last run of a proto patch: which script, and whether it wrote

trackerVars == <<now, watchedPlayers, allServerPlayers, disk, fsWritable, rustConnected,
                 connPending, retryPending, connecting, bmTimers, lastOp, emitted, unsaved,
                 unbroadcast, savedFrom>>

ledgerVars == <<joinRequests, clanMembers, joinFile, membersFile, envAdminSet, ledgerOp>>

hubVars == <<sock, delivered, firstMsg, published>>

patchVars == <<protoText, patchLog>>

bootVars == <<bootFiles, bootMem, booted, exited, crash, patchVars>>

vars == <<trackerVars, ledgerVars, hubVars, bootVars>>

\* ------------------------------------------------------------------ helpers
EmptyMap == [k \in {} |-> 0]

MapSet(map, key, val) == [k \in (DOMAIN map) \cup {key} |-> IF k = key THEN val ELSE map[k]]

MapDelete(map, key) == [k \in (DOMAIN map) \ {key} |-> map[k]]

RECURSIVE SumSpans(_)
SumSpans(sessions) ==
  IF sessions = <<>> THEN 0
  ELSE (Head(sessions).end - Head(sessions).start) + SumSpans(Tail(sessions))

\* A message sent to dashboards: to = "all" (wsBroadcast) or "client" (send).
Msg(to, type, key, event) == [to |-> to, type |-> type, key |-> key, event |-> event]

\* The handler-local state at entry; sk is the clock skew of this run.
Begin(sk) ==
  [wp |-> watchedPlayers, sp |-> allServerPlayers, disk |-> disk,
   savedFrom |-> savedFrom, t |-> now, sk |-> sk, out |-> <<>>,
   unsaved |-> {}, unbroadcast |-> {}, saves |-> 0]

wsBroadcast(h, type, key, event) ==
  [h EXCEPT !.out = Append(@, Msg("all", type, key, event)), !.unbroadcast = {}]

send(h, type, key, event) ==
  [h EXCEPT !.out = Append(@, Msg("client", type, key, event))]

\* pushState: wsBroadcast({type:'stateUpdate', data: buildState()})
pushState(h) == wsBroadcast(h, "stateUpdate", "", "")

\* pushAlert: liveAlerts.unshift(..); wsBroadcast({type:'alert', ..})
pushAlert(h) == wsBroadcast(h, "alert", "", "")

\* ------------------------------------------------------- saveWatchedPlayers
\* One entry of the saved array: an open session is finalised into the copy.
FinaliseEntry(wp, t, sk) ==
  IF wp.currentSessionStart # Null
  THEN [wp EXCEPT
          !.sessions = Append(@, [start |-> wp.currentSessionStart,
                                  end |-> t + sk,
                                  ms |-> t - wp.currentSessionStart]),
          !.totalMs = @ + (t - wp.currentSessionStart)]
  ELSE wp

RECURSIVE SaveEntries(_, _, _, _)
SaveEntries(wp, keys, t, sk) ==
  IF keys = <<>> THEN [arr |-> <<>>, t |-> t, sk |-> sk]
  ELSE LET k == Head(keys) IN
       IF k \notin DOMAIN wp THEN SaveEntries(wp, Tail(keys), t, sk)
       ELSE LET open == wp[k].currentSessionStart # Null
                rest == SaveEntries(wp, Tail(keys),
                                    IF open THEN t + sk ELSE t,
                                    IF open THEN 0 ELSE sk)
            IN [rest EXCEPT !.arr = <<FinaliseEntry(wp[k], t, sk)>> \o @]

saveWatchedPlayers(h) ==
  LET s == SaveEntries(h.wp, KeyOrder, h.t, h.sk) IN
  IF fsWritable
  THEN [h EXCEPT !.disk = [exists |-> TRUE, arr |-> s.arr],
                 !.savedFrom = h.wp,
                 !.t = s.t, !.sk = s.sk, !.unsaved = {}, !.saves = @ + 1]
  ELSE [h EXCEPT !.t = s.t, !.sk = s.sk, !.unsaved = {}, !.saves = @ + 1]

\* ------------------------------------------------------- loadWatchedPlayers
LoadEntry(e) ==
  [steamId |-> e.steamId,
   name |-> IF e.name = "" THEN "Unknown" ELSE e.name,
   online |-> FALSE,
   totalMs |-> e.totalMs,
   currentSessionStart |-> Null,
   sessions |-> e.sessions]

RECURSIVE LoadEntries(_, _)
LoadEntries(map, arr) ==
  IF arr = <<>> THEN map
  ELSE LoadEntries(IF Head(arr).steamId = "" THEN map
                   ELSE MapSet(map, Head(arr).steamId, LoadEntry(Head(arr))),
                   Tail(arr))

loadWatchedPlayers(d) ==
  IF ~d.exists THEN EmptyMap ELSE LoadEntries(EmptyMap, d.arr)

\* ----------------------------------------------------------------- addWatch
NewWatch(key, name) ==
  [steamId |-> key, name |-> name, online |-> FALSE, totalMs |-> 0,
   currentSessionStart |-> Null, sessions |-> <<>>]

addWatchOk(h, key) == key # "" /\ key \notin DOMAIN h.wp

addWatch_Overwrites(h, key, name) ==
  IF key # ""
  THEN saveWatchedPlayers([h EXCEPT !.wp = MapSet(@, key, NewWatch(key, name))])
  ELSE h

addWatch(h, key, name) ==
  IF addWatchOk(h, key)
  THEN saveWatchedPlayers([h EXCEPT !.wp = MapSet(@, key, NewWatch(key, name))])
  ELSE h

\* -------------------------------------------------------------- removeWatch
removeWatch(h, key) == saveWatchedPlayers([h EXCEPT !.wp = MapDelete(@, key)])

\* -------------------------------------------------------- session accounting
\* offline -> online: wp.currentSessionStart = Date.now()
OpenSession(wp, t) == [wp EXCEPT !.online = TRUE, !.currentSessionStart = t]

\* online -> offline: if (wp.currentSessionStart) { ms; sessions.push; totalMs += ms;
\* currentSessionStart = null }.  ms uses the first clock read, end the second.
CloseSession_KeepsStart(wp, t, sk) ==
  IF wp.currentSessionStart # Null
  THEN [wp EXCEPT
          !.online = FALSE,
          !.sessions = Append(@, [start |-> wp.currentSessionStart,
                                  end |-> t + sk,
                                  ms |-> t - wp.currentSessionStart]),
          !.totalMs = @ + (t - wp.currentSessionStart)]
  ELSE [wp EXCEPT !.online = FALSE]

CloseSession(wp, t, sk) ==
  IF wp.currentSessionStart # Null
  THEN [wp EXCEPT
          !.online = FALSE,
          !.sessions = Append(@, [start |-> wp.currentSessionStart,
                                  end |-> t + sk,
                                  ms |-> t - wp.currentSessionStart]),
          !.totalMs = @ + (t - wp.currentSessionStart),
          !.currentSessionStart = Null]
  ELSE [wp EXCEPT !.online = FALSE]

\* The handler state after the watched record of key went online / offline.
WentOnline(h, key) ==
  [h EXCEPT !.wp[key] = OpenSession(@, h.t),
            !.unsaved = @ \cup {key}, !.unbroadcast = @ \cup {key}]

WentOffline(h, key) ==
  [h EXCEPT !.wp[key] = CloseSession(@, h.t, h.sk),
            !.t = IF h.wp[key].currentSessionStart # Null THEN h.t + h.sk ELSE h.t,
            !.sk = IF h.wp[key].currentSessionStart # Null THEN 0 ELSE h.sk,
            !.unsaved = @ \cup {key}, !.unbroadcast = @ \cup {key}]

\* -------------------------------------------------------- updateSpyFromTeam
\* A team member as decoded from the feed: isOnline is "true", "false" or
\* "undef" (the patched proto makes the field optional); a name "" stands for a
\* missing name.
Truthy(flag) == flag = "true"

TeamMember == [steamId : SteamIds, name : Names, isOnline : {"true", "false", "undef"}]

\* The snapshots the feed delivers: an empty team or one member.
Snapshots == {<<>>} \cup {<<m>> : m \in TeamMember}

UpdateSpyMember_SavesAlways(h, m) ==
  LET key == m.steamId
      nowOnline == Truthy(m.isOnline)
      h1 == [h EXCEPT !.sp = MapSet(@, key, [name |-> IF m.name = "" THEN "Unknown" ELSE m.name,
                                              online |-> nowOnline])]
  IN IF key \notin DOMAIN h1.wp THEN h1
     ELSE LET wasOnline == h1.wp[key].online
              h2 == [h1 EXCEPT !.wp[key].name = IF m.name = "" THEN @ ELSE m.name]
          IN IF ~wasOnline /\ nowOnline
             THEN saveWatchedPlayers(pushAlert(wsBroadcast(WentOnline(h2, key), "spyEvent", key, "online")))
             ELSE IF wasOnline /\ ~nowOnline
             THEN saveWatchedPlayers(pushAlert(wsBroadcast(WentOffline(h2, key), "spyEvent", key, "offline")))
             ELSE saveWatchedPlayers(h2)

\* The body of members.forEach(m => ...) for one member.
UpdateSpyMember(h, m) ==
  LET key == m.steamId
      nowOnline == Truthy(m.isOnline)
      h1 == [h EXCEPT !.sp = MapSet(@, key, [name |-> IF m.name = "" THEN "Unknown" ELSE m.name,
                                              online |-> nowOnline])]
  IN IF key \notin DOMAIN h1.wp THEN h1
     ELSE LET wasOnline == h1.wp[key].online
              h2 == [h1 EXCEPT !.wp[key].name = IF m.name = "" THEN @ ELSE m.name]
          IN IF ~wasOnline /\ nowOnline
             THEN saveWatchedPlayers(pushAlert(wsBroadcast(WentOnline(h2, key), "spyEvent", key, "online")))
             ELSE IF wasOnline /\ ~nowOnline
             THEN saveWatchedPlayers(pushAlert(wsBroadcast(WentOffline(h2, key), "spyEvent", key, "offline")))
             ELSE h2

RECURSIVE updateSpyFromTeam(_, _)
updateSpyFromTeam(h, members) ==
  IF members = <<>> THEN h
  ELSE updateSpyFromTeam(UpdateSpyMember(h, Head(members)), Tail(members))

\* ----------------------------------------------------------- fetchBMPlayers
\* A poll outcome: kind "neterr" (the request fails), "badjson" (JSON.parse
\* throws), "noincluded" (JSON without an included array) or "ok" with included.
Included == [type : {"player", "server"}, id : BMPlayerIds, name : Names]

\* The included arrays polled: empty, the server record alone, or with one player.
IncludedLists ==
  {<<>>} \cup {<<x>> : x \in Included}
         \cup {<<x, y>> : x \in {i \in Included : i.type = "server"},
                          y \in {i \in Included : i.type = "player"}}

PollResponse ==
  {[kind |-> k, included |-> <<>>] : k \in {"neterr", "badjson", "noincluded"}}
    \cup {[kind |-> "ok", included |-> inc] : inc \in IncludedLists}

\* included.filter(x => x.type === 'player')
Players(included) == SelectSeq(included, LAMBDA x : x.type = "player")

\* onlineIds after players.forEach
OnlineIds(players) == {BMKey(players[i].id) : i \in 1..Len(players)}

\* players.forEach: add the entry or set online = true and the name
RECURSIVE MergePlayers(_, _)
MergePlayers(sp, players) ==
  IF players = <<>> THEN sp
  ELSE MergePlayers(MapSet(sp, BMKey(Head(players).id),
                           [name |-> Head(players).name, online |-> TRUE]),
                    Tail(players))

MarkMissingOffline_Delta(sp, onlineIds) == sp

\* allServerPlayers.forEach: bm_ entries missing from the listing go offline
MarkMissingOffline(sp, onlineIds) ==
  [k \in DOMAIN sp |->
     IF startsWithBM(k) /\ k \notin onlineIds THEN [sp[k] EXCEPT !.online = FALSE] ELSE sp[k]]

BMWatchStep_OfflineEveryPoll(h, key, onlineIds) ==
  IF ~startsWithBM(key) THEN h
  ELSE IF key \in onlineIds
       THEN (IF h.wp[key].online THEN h
             ELSE pushAlert(wsBroadcast(WentOnline(h, key), "spyEvent", key, "online")))
       ELSE wsBroadcast(WentOffline(h, key), "spyEvent", key, "offline")

\* The body of watchedPlayers.forEach((wp, key) => ...) for one key.
BMWatchStep(h, key, onlineIds) ==
  IF ~startsWithBM(key) THEN h
  ELSE LET nowOnline == key \in onlineIds
           wasOnline == h.wp[key].online
       IN IF ~wasOnline /\ nowOnline
          THEN pushAlert(wsBroadcast(WentOnline(h, key), "spyEvent", key, "online"))
          ELSE IF wasOnline /\ ~nowOnline
          THEN wsBroadcast(WentOffline(h, key), "spyEvent", key, "offline")
          ELSE h

RECURSIVE BMWatchLoop(_, _, _)
BMWatchLoop(h, keys, onlineIds) ==
  IF keys = <<>> THEN h
  ELSE BMWatchLoop(IF Head(keys) \in DOMAIN h.wp THEN BMWatchStep(h, Head(keys), onlineIds) ELSE h,
                   Tail(keys), onlineIds)

\* The try block of res.on('end') once JSON.parse has succeeded.
BMApply(h, included) ==
  LET players == Players(included)
      onlineIds == OnlineIds(players)
      h1 == [h EXCEPT !.sp = MarkMissingOffline(MergePlayers(@, players), onlineIds)]
  IN pushState(BMWatchLoop(h1, KeyOrder, onlineIds))

fetchBMPlayers_ErrorIsEmptyListing(h, resp) == BMApply(h, resp.included)

\* fetchBMPlayers with the outcome of its request.
fetchBMPlayers(h, resp) ==
  IF resp.kind \in {"neterr", "badjson"} THEN h ELSE BMApply(h, resp.included)

\* ------------------------------------------------------ join request ledger
\* The ids of the requests submitted.
ReqIds == {"r1", "r2"}

\* String.prototype.toLowerCase on the strings above
toLowerCase(str) ==
  CASE str = "Bob" -> "bob"
    [] str = "bob" -> "bob"
    [] str = "al" -> "al"
    [] OTHER -> str

\* Buffer.from(pw).toString('base64')
base64(pw) ==
  CASE pw = "p" -> "cA=="
    [] pw = "q" -> "cQ=="
    [] OTHER -> ""

\* msg.request / data.request; "" stands for a missing field.  Two requests
\* whose login keys differ by case only, one with another key that reuses an
\* id, and one that carries its secret in passcode.
ValidRequests ==
  {[id |-> "r1", name |-> "Bob", username |-> "", password |-> "p", passcode |-> ""],
   [id |-> "r2", name |-> "Bob", username |-> "bob", password |-> "p", passcode |-> ""],
   [id |-> "r2", name |-> "Bob", username |-> "al", password |-> "p", passcode |-> ""],
   [id |-> "r1", name |-> "Bob", username |-> "", password |-> "", passcode |-> "p"]}

InvalidRequests ==
  {[id |-> "", name |-> "Bob", username |-> "bob", password |-> "p", passcode |-> ""],
   [id |-> "r1", name |-> "", username |-> "bob", password |-> "p", passcode |-> ""],
   [id |-> "r1", name |-> "Bob", username |-> "bob", password |-> "", passcode |-> ""]}

JoinInput == ValidRequests \cup InvalidRequests

\* The body of POST /join: JSON with a request, or text JSON.parse rejects.
JoinBodies ==
  {[json |-> TRUE, request |-> r] : r \in JoinInput}
    \cup {[json |-> FALSE, request |-> [id |-> "", name |-> "", username |-> "",
                                        password |-> "", passcode |-> ""]]}

\* (r.username || r.name)
LoginName(r) == IF r.username # "" THEN r.username ELSE r.name

\* (r.username || r.name).toLowerCase()
LoginKey(r) == toLowerCase(LoginName(r))

\* const plainPw = req.password || req.passcode
plainPw(req) == IF req.password # "" THEN req.password ELSE req.passcode

EmptyFile == [exists |-> FALSE, arr |-> <<>>]

\* The payload of a reply that carries none.
NoPayload == [id |-> "", name |-> "", username |-> "", role |-> ""]

\* The state a ledger handler works on, and its reply.
BeginLedger ==
  [jr |-> joinRequests, cm |-> clanMembers, jrFile |-> joinFile, cmFile |-> membersFile,
   out |-> <<>>, unbroadcast |-> {}, reply |-> "", payload |-> NoPayload]

saveJoinRequestsFile_RollsBack(g) ==
  IF fsWritable THEN [g EXCEPT !.jrFile = [exists |-> TRUE, arr |-> g.jr]]
  ELSE [g EXCEPT !.jr = g.jrFile.arr]

\* try { fs.writeFileSync(JOIN_REQS_FILE, ..) } catch(e) { console.warn(..) }
saveJoinRequestsFile(g) ==
  IF fsWritable THEN [g EXCEPT !.jrFile = [exists |-> TRUE, arr |-> g.jr]] ELSE g

saveClanMembersFile(g) ==
  IF fsWritable THEN [g EXCEPT !.cmFile = [exists |-> TRUE, arr |-> g.cm]] ELSE g

loadJoinRequests(file) == IF file.exists THEN file.arr ELSE <<>>

loadClanMembers(file) == IF file.exists THEN file.arr ELSE <<>>

existingPending_CaseSensitive(jr, key) ==
  \E i \in 1..Len(jr) : LoginName(jr[i]) = key /\ jr[i].status = "pending"

\* joinRequests.find(r => key matches && r.status === 'pending')
existingPending(jr, key) ==
  \E i \in 1..Len(jr) : LoginKey(jr[i]) = key /\ jr[i].status = "pending"

existingMember_Ignored(cm, key) == FALSE

\* clanMembers.find(m => key matches && m.status === 'approved')
existingMember(cm, key) ==
  \E i \in 1..Len(cm) : LoginKey(cm[i]) = key /\ cm[i].status = "approved"

\* The checks of a submission, in the order of the code.
SubmitVerdict(g, req) ==
  IF req.id = "" \/ req.name = "" THEN "invalid"
  ELSE IF plainPw(req) = "" THEN "nopassword"
  ELSE IF existingPending(g.jr, LoginKey(req)) THEN "pending"
  ELSE IF existingMember(g.cm, LoginKey(req)) THEN "member"
  ELSE "ok"

\* req.status = 'pending'; req.passwordHash = ...; delete req.password;
\* delete req.passcode: the stored record has neither field.
StoreRequest(req) ==
  [id |-> req.id, name |-> req.name, username |-> req.username,
   status |-> "pending", passwordHash |-> base64(plainPw(req))]

\* joinRequests.unshift(req); saveJoinRequestsFile()
InsertRequest(g, req) == saveJoinRequestsFile([g EXCEPT !.jr = <<StoreRequest(req)>> \o @])

\* handleDashMsg case 'submitJoinRequest'
submitJoinRequest(g, req) ==
  LET v == SubmitVerdict(g, req)
      g0 == [g EXCEPT !.reply = v]
  IN IF v \in {"invalid", "nopassword"} THEN send(g0, "error", req.id, v)
     ELSE IF v \in {"pending", "member"} THEN send(g0, "joinRequestResult", req.id, "fail")
     ELSE wsBroadcast(wsBroadcast(send(InsertRequest(g0, req), "joinRequestResult", req.id, "ok"),
                                  "stateUpdate", "", ""),
                      "newJoinRequest", req.id, "")

\* POST /join, the req.on('end') callback
httpJoin(g, body) ==
  IF ~body.json THEN [g EXCEPT !.reply = "error500"]
  ELSE LET req == body.request
           v == SubmitVerdict(g, req)
           g0 == [g EXCEPT !.reply = v]
       IN IF v # "ok" THEN g0
          ELSE wsBroadcast(wsBroadcast(InsertRequest(g0, req), "stateUpdate", "", ""),
                           "newJoinRequest", req.id, "")

\* joinRequests.findIndex(r => r.id === id): 0 stands for -1
findIndex(jr, id) ==
  IF \E i \in 1..Len(jr) : jr[i].id = id
  THEN CHOOSE i \in 1..Len(jr) : jr[i].id = id /\ \A j \in 1..(i - 1) : jr[j].id # id
  ELSE 0

\* The member an approval pushes.
NewMember(req) ==
  [id |-> req.id, name |-> req.name, username |-> LoginName(req),
   passwordHash |-> req.passwordHash, role |-> "member", status |-> "approved"]

\* clanMembers.find(m => (m.username||m.name).toLowerCase() === memberKey)
memberWithKey(cm, key) == \E i \in 1..Len(cm) : LoginKey(cm[i]) = key

approve_AlwaysPushes(g, idx) ==
  saveClanMembersFile([g EXCEPT !.jr[idx].status = "approved",
                                !.cm = Append(@, NewMember(g.jr[idx]))])

\* status = 'approved'; push the member unless its key has one already
approve(g, idx) ==
  LET g1 == [g EXCEPT !.jr[idx].status = "approved"] IN
  IF memberWithKey(g1.cm, LoginKey(g1.jr[idx])) THEN g1
  ELSE saveClanMembersFile([g1 EXCEPT !.cm = Append(@, NewMember(g1.jr[idx]))])

\* joinRequests.splice(idx, 1)
splice(seq, idx) == SubSeq(seq, 1, idx - 1) \o SubSeq(seq, idx + 1, Len(seq))

\* arr.filter(x => x.id !== id)
filterId(seq, id) == SelectSeq(seq, LAMBDA x : x.id # id)

UpdateActions == {"approve", "deny", "delete", "removeMember"}

\* handleDashMsg case 'updateJoinRequest'
updateJoinRequest(g, id, action) ==
  LET idx == findIndex(g.jr, id) IN
  IF idx = 0 THEN send([g EXCEPT !.reply = "notfound"], "error", id, "Request not found")
  ELSE LET g0 == [g EXCEPT !.reply = "ok"]
           g1 == CASE action = "approve" -> approve(g0, idx)
                   [] action = "deny" -> [g0 EXCEPT !.jr[idx].status = "denied"]
                   [] action = "delete" -> [g0 EXCEPT !.jr = splice(@, idx)]
                   [] action = "removeMember" ->
                        [saveClanMembersFile([g0 EXCEPT !.cm = filterId(@, id)])
                           EXCEPT !.jr = filterId(@, id)]
                   [] OTHER -> g0
       IN wsBroadcast(saveJoinRequestsFile(g1), "stateUpdate", "", "")

\* The body of POST /approve: JSON with an id and an adminPassword ("" stands
\* for a missing one), or text JSON.parse rejects.
ApproveBodies ==
  {[json |-> TRUE, id |-> i, adminPassword |-> pw] : i \in ReqIds, pw \in {"", "p"}}
    \cup {[json |-> FALSE, id |-> "", adminPassword |-> ""]}

\* POST /approve: clanMembers.find(m => m.role === 'admin' &&
\* m.passwordHash === adminHash && m.status === 'approved').  The handler
\* computes it and tests it in an if whose block is empty.
isAdmin(cm, adminPassword) ==
  \E i \in 1..Len(cm) :
    /\ cm[i].role = "admin"
    /\ cm[i].passwordHash = base64(adminPassword)
    /\ cm[i].status = "approved"

\* POST /approve, the req.on('end') callback.  With ADMIN_PASSWORD or ADMIN_CODE
\* set, evaluating envAdminPy throws and the catch answers 500.
httpApprove(g, body, envSet) ==
  IF ~body.json \/ envSet THEN [g EXCEPT !.reply = "error500"]
  ELSE LET idx == findIndex(g.jr, body.id) IN
       IF idx = 0 THEN [g EXCEPT !.reply = "notfound"]
       ELSE wsBroadcast(saveJoinRequestsFile(approve([g EXCEPT !.reply = "ok"], idx)),
                        "stateUpdate", "", "")

\* The names typed at login: one with a capital, one with a leading blank.
LoginNames == {"Bob", " al", ""}
LoginPasswords == {"p", "q", ""}

\* String.prototype.trim on the names above
trim(str) == IF str = " al" THEN "al" ELSE str

\* The test of clanMembers.find(m => ...) of a login for the member m.
loginMatches_AnyPassword(m, name, password) ==
  /\ (toLowerCase(m.username) = toLowerCase(trim(name))
        \/ toLowerCase(m.name) = toLowerCase(trim(name)))
  /\ m.status = "approved"

loginMatches(m, name, password) ==
  /\ (toLowerCase(m.username) = toLowerCase(trim(name))
        \/ toLowerCase(m.name) = toLowerCase(trim(name)))
  /\ m.passwordHash = base64(password)
  /\ m.status = "approved"

\* clanMembers.find(m => (username or name matches) && hash matches && approved)
findLogin(cm, name, password) ==
  \E i \in 1..Len(cm) : loginMatches(cm[i], name, password)

\* The member clanMembers.find returns: the first that matches.
loginMember(cm, name, password) ==
  cm[CHOOSE i \in 1..Len(cm) :
       /\ loginMatches(cm[i], name, password)
       /\ \A j \in 1..(i - 1) : ~loginMatches(cm[j], name, password)]

\* member: { id, name, username: member.username||member.name, discord, role }
loginPayload(m) ==
  [id |-> m.id, name |-> m.name, username |-> LoginName(m), role |-> m.role]

\* handleDashMsg case 'memberLogin'
memberLogin(g, name, password) ==
  IF name = "" \/ password = "" THEN send([g EXCEPT !.reply = "missing"], "memberLoginResult", "", "fail")
  ELSE IF findLogin(g.cm, name, password)
       THEN send(saveClanMembersFile([g EXCEPT !.reply = "ok",
                                               !.payload = loginPayload(loginMember(g.cm, name, password))]),
                 "memberLoginResult", "", "ok")
       ELSE send([g EXCEPT !.reply = "fail"], "memberLoginResult", "", "fail")

\* The body of POST /login: JSON with username and password, or text
\* JSON.parse rejects.
LoginBodies ==
  {[json |-> TRUE, username |-> n, password |-> pw] : n \in LoginNames, pw \in LoginPasswords}
    \cup {[json |-> FALSE, username |-> "", password |-> ""]}

\* POST /login, the req.on('end') callback
httpLogin(g, body) ==
  IF ~body.json THEN [g EXCEPT !.reply = "error500"]
  ELSE IF body.username = "" \/ body.password = "" THEN [g EXCEPT !.reply = "missing"]
  ELSE IF findLogin(g.cm, body.username, body.password)
       THEN saveClanMembersFile(
              [g EXCEPT !.reply = "ok",
                        !.payload = loginPayload(loginMember(g.cm, body.username, body.password))])
       ELSE [g EXCEPT !.reply = "fail"]

\* ---------------------------------------------- buildState and GET /requests
\* const {passwordHash, ...rest} = r; return rest
Omit(r, fields) == [f \in (DOMAIN r) \ fields |-> r[f]]

buildStateJoinRequests_Whole(jr) == jr

\* buildState: joinRequests.map(r => rest)
buildStateJoinRequests(jr) == [i \in 1..Len(jr) |-> Omit(jr[i], {"passwordHash"})]

\* buildState: clanMembers.map(m => ({ id, name, discord, role, status, .. }))
buildStateClanMembers(cm) ==
  [i \in 1..Len(cm) |->
     [id |-> cm[i].id, name |-> cm[i].name, role |-> cm[i].role, status |-> cm[i].status]]

\* GET /requests: joinRequests.map(r => rest)
getRequests(jr) == [i \in 1..Len(jr) |-> Omit(jr[i], {"passwordHash"})]

\* The ledger records a broadcast of the handler run g carries: a stateUpdate
\* has data: buildState(), a newJoinRequest has request: { ...req } of the
\* request just put at the head of joinRequests.
broadcastRecords(g, m) ==
  CASE m.type = "stateUpdate" ->
         buildStateJoinRequests(g.jr) \o buildStateClanMembers(g.cm)
    [] m.type = "newJoinRequest" -> <<Head(g.jr)>>
    [] OTHER -> <<>>

\* The tag kept in ledgerOp.
LedgerOp(op, path, name, id, action, reply) ==
  [op |-> op, path |-> path, name |-> name, id |-> id, action |-> action, reply |-> reply]

\* ------------------------------------------------------------ dashboard hub
\* The dashboard sockets; wsClients.forEach visits them in the order ClientOrder.
\* A socket in wsClients is "open", "closing" (readyState is no longer OPEN and
\* its close event has not run yet) or "broken" (ws.send throws).
Clients == {"c1", "c2"}
ClientOrder == <<"c1", "c2">>

wsClients(socks) == {c \in Clients : socks[c] # "none"}

NoMessages == [c \in Clients |-> <<>>]

socketSend_IgnoresReadyState(socks, inb, c, m) ==
  IF socks[c] # "none" THEN [inb EXCEPT ![c] = Append(@, m)] ELSE inb

\* try { if (ws.readyState === WSLib.OPEN) ws.send(s); } catch {}
socketSend(socks, inb, c, m) ==
  IF socks[c] = "open" THEN [inb EXCEPT ![c] = Append(@, m)] ELSE inb

RECURSIVE broadcastLoop_AbortOnFailure(_, _, _, _)
broadcastLoop_AbortOnFailure(socks, inb, clients, m) ==
  IF clients = <<>> THEN inb
  ELSE IF socks[Head(clients)] \in {"closing", "broken"} THEN inb
  ELSE broadcastLoop_AbortOnFailure(socks, socketSend(socks, inb, Head(clients), m),
                                    Tail(clients), m)

\* wsClients.forEach(ws => { try { ... } catch {} })
RECURSIVE broadcastLoop(_, _, _, _)
broadcastLoop(socks, inb, clients, m) ==
  IF clients = <<>> THEN inb
  ELSE broadcastLoop(socks,
                     IF Head(clients) \in wsClients(socks)
                     THEN socketSend(socks, inb, Head(clients), m) ELSE inb,
                     Tail(clients), m)

\* The messages of a handler run with send's receiver written out: sender is
\* the client whose message started the run, "" when there is none.
Addressed(out, sender) ==
  [i \in 1..Len(out) |-> [out[i] EXCEPT !.to = IF @ = "client" THEN sender ELSE @]]

\* What the sockets are written for those messages, in the order of the calls.
RECURSIVE Flush(_, _, _)
Flush(socks, inb, msgs) ==
  IF msgs = <<>> THEN inb
  ELSE LET m == Head(msgs)
           inb1 == IF m.to = "all" THEN broadcastLoop(socks, inb, ClientOrder, m)
                   ELSE IF m.to \in Clients THEN socketSend(socks, inb, m.to, m)
                   ELSE inb
       IN Flush(socks, inb1, Tail(msgs))

connection_NoSnapshot(h) == h

\* wss.on('connection') after wsClients.add(ws): send(ws, {type:'fullState', ..})
connection(h) == send(h, "fullState", "", "")

\* handleDashMsg case 'requestState'
requestState(h) == send(h, "fullState", "", "")

\* ------------------------------------------------------- state after a run
WithinBounds(h) ==
  /\ h.t <= MaxTime
  /\ \A k \in DOMAIN h.wp : Len(h.wp[k].sessions) <= MaxSessions
  /\ \A i \in 1..Len(h.disk.arr) : Len(h.disk.arr[i].sessions) <= MaxSessions

\* h.sk = 0: a run that chose a skew has read the clock twice.
Commit(h, op) ==
  /\ WithinBounds(h)
  /\ h.sk = 0
  /\ now' = h.t
  /\ watchedPlayers' = h.wp
  /\ allServerPlayers' = h.sp
  /\ disk' = h.disk
  /\ savedFrom' = h.savedFrom
  /\ emitted' = SelectSeq(h.out, LAMBDA m : m.type = "spyEvent")
  /\ unsaved' = h.unsaved
  /\ unbroadcast' = h.unbroadcast
  /\ lastOp' = op

\* The tag kept in lastOp.
Op(name, key, kind, listing) ==
  IF name = "fetchBM" THEN [op |-> name, kind |-> kind, listing |-> listing]
  ELSE IF name = "restart" THEN [op |-> name, kind |-> "", listing |-> {}]
  ELSE [op |-> "other", kind |-> "", listing |-> {}]

Skew == {0, 1}

\* ------------------------------------------------------------------ actions
\* The state once the module has loaded: no files on disk, discord is ready and
\* startRustClient has called rustplus.connect().
TrackerInit ==
  /\ now = 1
  /\ watchedPlayers = EmptyMap
  /\ allServerPlayers = EmptyMap
  /\ disk = [exists |-> FALSE, arr |-> <<>>]
  /\ fsWritable = TRUE
  /\ rustConnected = FALSE
  /\ connPending = FALSE
  /\ retryPending = FALSE
  /\ connecting = TRUE
  /\ bmTimers = 0
  /\ lastOp = Op("start", "", "", {})
  /\ emitted = <<>>
  /\ unsaved = {}
  /\ unbroadcast = {}
  /\ savedFrom = EmptyMap

\* No ledger files on disk.
LedgerInit ==
  /\ joinRequests = loadJoinRequests(EmptyFile)
  /\ clanMembers = loadClanMembers(EmptyFile)
  /\ joinFile = EmptyFile
  /\ membersFile = EmptyFile
  /\ ledgerOp = LedgerOp("start", "", "", "", "", "")

\* No dashboard is connected.
HubInit ==
  /\ sock = [c \in Clients |-> "none"]
  /\ delivered = [c \in Clients |-> <<>>]
  /\ firstMsg = [c \in Clients |-> ""]
  /\ published = <<>>

\* ------------------------------------------------------ files at start-up
\* The three persisted collections.
Collections == {"watched", "requests", "members"}

\* What a file holds when the process starts: no file, text JSON.parse rejects,
\* the JSON null, a JSON object, a list whose only element is null, a list of a
\* well-formed record followed by null, or a list of well-formed records.
FileKinds == {"missing", "unparseable", "null", "object", "badrecord", "mixed", "list"}

\* loadWatchedPlayers: everything runs inside try; arr.forEach throws for a
\* value that is no array and wp.steamId throws for a null element, after the
\* elements before it have been set.
loadWatchedPlayersFrom(kind) ==
  CASE kind = "list" -> "list"
    [] kind = "mixed" -> "list"
    [] OTHER -> "empty"

\* loadJoinRequests: joinRequests = JSON.parse(..) is assigned as it is; the
\* catch resets it to [] when the parse throws or when .length is read of null.
loadJoinRequestsFrom(kind) ==
  CASE kind \in {"missing", "unparseable", "null"} -> "empty"
    [] OTHER -> kind

\* loadClanMembers: the same code on clan_members.json
loadClanMembersFrom(kind) ==
  CASE kind \in {"missing", "unparseable", "null"} -> "empty"
    [] OTHER -> kind

\* Module load: loadWatchedPlayers(); loadJoinRequests(); loadClanMembers()
moduleLoad(files) ==
  [c \in Collections |->
     CASE c = "watched" -> loadWatchedPlayersFrom(files[c])
       [] c = "requests" -> loadJoinRequestsFrom(files[c])
       [] OTHER -> loadClanMembersFrom(files[c])]

\* The values on which .map, .find and .findIndex with the callbacks of the
\* code throw a TypeError: an object has no such method, a null element has no
\* fields.
Unreadable == {"object", "badrecord", "mixed"}

\* buildState reads joinRequests.map and clanMembers.map.
buildStateThrows(mem) == mem["requests"] \in Unreadable \/ mem["members"] \in Unreadable

\* The messages of the errors thrown; "" stands for an error with no message.
Messages == {"", "x.map is not a function", "missing required 'isOnline'"}

\* msg.includes("missing required") on the messages above
includesMissingRequired(msg) == msg = "missing required 'isOnline'"

\* What reaches a process-level handler: null, or an error with a name and a
\* message.
Errors ==
  {[isNull |-> TRUE, name |-> "", message |-> ""]}
    \cup {[isNull |-> FALSE, name |-> n, message |-> m] :
            n \in {"ProtocolError", "TypeError"}, m \in Messages}

uncaughtException_NameOnly(err) ==
  IF ~err.isNull /\ err.name = "ProtocolError" THEN "return" ELSE "exit1"

\* process.on('uncaughtException'): return for a ProtocolError or a message
\* with "missing required", else console.error and process.exit(1).
uncaughtException(err) ==
  IF ~err.isNull /\ (err.name = "ProtocolError"
                       \/ (err.message # "" /\ includesMissingRequired(err.message)))
  THEN "return" ELSE "exit1"

\* process.on('unhandledRejection'): the same test on the reason, the message
\* read as String(reason.message||'').
unhandledRejection(reason) ==
  IF ~reason.isNull /\ (reason.name = "ProtocolError"
                          \/ includesMissingRequired(reason.message))
  THEN "return" ELSE "exit1"

\* Whether process.exit(1) follows an uncaught error of the given name thrown
\* by the program's own code (its message is not about a missing field).
exitsOn(err) ==
  uncaughtException([isNull |-> FALSE, name |-> err,
                     message |-> "x.map is not a function"]) = "exit1"

\* No error has reached a process-level handler.
NoCrash == [via |-> "", err |-> [isNull |-> TRUE, name |-> "", message |-> ""],
            outcome |-> ""]

\* ---------------------------------------------------------------- proto patch
\* rustplus.proto as lexical tokens: the words required and optional, blank
\* and newline, the comment opener and a punctuation mark.
Tokens == {"required", "optional", " ", "nl", "//", "."}

Words == {"required", "optional"}

Whitespace == {" ", "nl"}

MaxProtoLen == 4

\* Two words are never adjacent: they would be one longer word.
Lexed(t) == \A i \in 1..(Len(t) - 1) : ~(t[i] \in Words /\ t[i + 1] \in Words)

ProtoTexts ==
  {t \in UNION {[1..n -> Tokens] : n \in 0..MaxProtoLen} : Lexed(t)}

\* proto.replace(/\brequired\b(\s+)/g, 'optional$1')
replaceRequired(t) ==
  [i \in 1..Len(t) |->
     IF t[i] = "required" /\ i < Len(t) /\ t[i + 1] \in Whitespace THEN "optional" ELSE t[i]]

\* /\brequired\b/.test(src)
testRequired(t) == \E i \in 1..Len(t) : t[i] = "required"

\* patch.js: replace, then write unless proto === before.
patchJs(t) ==
  LET proto == replaceRequired(t) IN
  [text |-> proto, wrote |-> proto # t]

\* bot.js Fix 1: when the test finds the word, write the replaced text.
startupPatch(t) ==
  IF testRequired(t) THEN [text |-> replaceRequired(t), wrote |-> TRUE]
  ELSE [text |-> t, wrote |-> FALSE]

\* No patch has run.
NoPatch == [by |-> "", wrote |-> FALSE]

\* In the other specifications the process has started without files.
BootInit ==
  /\ bootFiles = [c \in Collections |-> "missing"]
  /\ bootMem = [c \in Collections |-> "empty"]
  /\ booted = TRUE
  /\ exited = FALSE
  /\ crash = NoCrash
  /\ protoText = <<>>
  /\ patchLog = NoPatch

\* The tracker's environment: ADMIN_PASSWORD and ADMIN_CODE are unset.
Init == TrackerInit /\ LedgerInit /\ envAdminSet = FALSE /\ HubInit /\ BootInit

\* The clock advances between handlers.
Tick ==
  /\ now < MaxTime
  /\ now' = now + 1
  /\ lastOp' = Op("tick", "", "", {})
  /\ emitted' = <<>>
  /\ UNCHANGED <<watchedPlayers, allServerPlayers, disk, fsWritable, rustConnected,
                 connPending, retryPending, connecting, bmTimers, unsaved, unbroadcast,
                 savedFrom,
                 ledgerVars, hubVars, bootVars>>

\* addSpy without the copy of the roster's online flag.
addSpy_NoSync(h, key, name) ==
  LET ok == addWatchOk(h, key)
      h1 == send(addWatch(h, key, IF name = "" THEN "Unknown" ELSE name),
                 "spyResult", key, IF ok THEN "ok" ELSE "fail")
  IN IF ~ok THEN h1 ELSE pushState(h1)

\* handleDashMsg case 'addSpy'
addSpy(h, key, name) ==
  LET ok == addWatchOk(h, key)
      h1 == send(addWatch(h, key, IF name = "" THEN "Unknown" ELSE name),
                 "spyResult", key, IF ok THEN "ok" ELSE "fail")
  IN IF ~ok THEN h1
     ELSE pushState(IF key \in DOMAIN h1.sp /\ h1.sp[key].online
                    THEN WentOnline(h1, key) ELSE h1)

\* The dashboards watch one player at a time here: another key is added once the
\* watch list is empty again.
AddSpy(key, name, sk) ==
  /\ (key \in DOMAIN watchedPlayers \/ DOMAIN watchedPlayers = {})
  /\ Commit(addSpy(Begin(sk), key, name),
            Op("addSpy", key, IF addWatchOk(Begin(sk), key) THEN "ok" ELSE "fail", {}))
  /\ UNCHANGED <<fsWritable, rustConnected, connPending, retryPending, connecting, bmTimers,
                 ledgerVars, hubVars, bootVars>>

\* handleDashMsg case 'removeSpy'
RemoveSpy(key, sk) ==
  /\ Commit(pushState(removeWatch(Begin(sk), key)), Op("removeSpy", key, "ok", {}))
  /\ UNCHANGED <<fsWritable, rustConnected, connPending, retryPending, connecting, bmTimers,
                 ledgerVars, hubVars, bootVars>>

\* refreshTeam from the !team and /team commands: one pass over the snapshot.
RefreshTeam(members, sk) ==
  /\ rustConnected
  /\ Commit(updateSpyFromTeam(Begin(sk), members), Op("refreshTeam", "", "ok", {}))
  /\ UNCHANGED <<fsWritable, rustConnected, connPending, retryPending, connecting, bmTimers,
                 ledgerVars, hubVars, bootVars>>

\* handleTeamChanged: refreshTeam applies the snapshot, then it is applied again.
handleTeamChanged(h, members) ==
  pushState(updateSpyFromTeam(updateSpyFromTeam(h, members), members))

HandleTeamChanged(members, sk) ==
  /\ rustConnected
  /\ Commit(handleTeamChanged(Begin(sk), members), Op("teamChanged", "", "ok", {}))
  /\ UNCHANGED <<fsWritable, rustConnected, connPending, retryPending, connecting, bmTimers,
                 ledgerVars, hubVars, bootVars>>

\* One run of fetchBMPlayers (a poll timer fired, or the first fetch of
\* startBMPolling) together with the outcome of its request.
FetchBM(resp, sk) ==
  /\ bmTimers > 0
  /\ Commit(fetchBMPlayers(Begin(sk), resp),
            Op("fetchBM", "", resp.kind, OnlineIds(Players(resp.included))))
  /\ UNCHANGED <<fsWritable, rustConnected, connPending, retryPending, connecting, bmTimers,
                 ledgerVars, hubVars, bootVars>>

\* setInterval(() => { if (watchedPlayers.size > 0) saveWatchedPlayers(); }, 300000)
PeriodicSave(sk) ==
  /\ Commit(IF DOMAIN watchedPlayers # {} THEN saveWatchedPlayers(Begin(sk)) ELSE Begin(sk),
            Op("periodicSave", "", "ok", {}))
  /\ UNCHANGED <<fsWritable, rustConnected, connPending, retryPending, connecting, bmTimers,
                 ledgerVars, hubVars, bootVars>>

\* rustplus 'connected' up to its first await.
Connected ==
  /\ connecting /\ ~rustConnected /\ ~retryPending /\ ~connPending
  /\ rustConnected' = TRUE
  /\ connecting' = FALSE
  /\ connPending' = TRUE
  /\ lastOp' = Op("connected", "", "ok", {})
  /\ emitted' = <<>>
  /\ unsaved' = {}
  /\ unbroadcast' = {}
  /\ UNCHANGED <<now, watchedPlayers, allServerPlayers, disk, fsWritable,
                 retryPending, bmTimers, savedFrom, ledgerVars, hubVars, bootVars>>

\* The rest of the 'connected' handler: the team snapshot (applied by refreshTeam
\* and again by the handler), startPop, startBMPolling, pushAlert, pushState.
connectedResume(h, members) ==
  pushState(pushAlert(updateSpyFromTeam(updateSpyFromTeam(h, members), members)))

ConnectedResume(members, sk) ==
  /\ connPending
  /\ members # <<>> => rustConnected
  /\ connPending' = FALSE
  /\ bmTimers' = IF bmTimers < 2 THEN bmTimers + 1 ELSE bmTimers
  /\ Commit(connectedResume(Begin(sk), members), Op("connectedResume", "", "ok", {}))
  /\ UNCHANGED <<fsWritable, rustConnected, retryPending, connecting, ledgerVars, hubVars, bootVars>>

disconnected_AllOffline(h) ==
  LET off(hh, k) == IF k \in DOMAIN hh.wp /\ hh.wp[k].online
                    THEN wsBroadcast(WentOffline(hh, k), "spyEvent", k, "offline")
                    ELSE hh
  IN pushState(pushAlert(off(off(h, "s1"), "bm_1")))

\* rustplus 'disconnected': what the handler does to the tracker and the
\* dashboards (pushAlert, pushState); the flag and the timer are in the action.
disconnected(h) == pushState(pushAlert(h))

\* The connection closes, or a connect attempt fails: rustConnected = false,
\* the alert and the state push, setTimeout(connect, 15000).
Disconnected ==
  /\ rustConnected \/ connecting
  /\ ~retryPending
  /\ rustConnected' = FALSE
  /\ connecting' = FALSE
  /\ retryPending' = TRUE
  /\ Commit(disconnected(Begin(0)), Op("disconnected", "", "ok", {}))
  /\ UNCHANGED <<fsWritable, connPending, bmTimers, ledgerVars, hubVars, bootVars>>

Reconnect_NoConnect ==
  /\ retryPending
  /\ retryPending' = FALSE
  /\ connecting' = FALSE
  /\ lastOp' = Op("reconnect", "", "ok", {})
  /\ emitted' = <<>>
  /\ unsaved' = {}
  /\ unbroadcast' = {}
  /\ UNCHANGED <<now, watchedPlayers, allServerPlayers, disk, fsWritable,
                 rustConnected, connPending, bmTimers, savedFrom, ledgerVars, hubVars, bootVars>>

\* The 15 s reconnect timer fires: rustplus.connect().
Reconnect ==
  /\ retryPending
  /\ retryPending' = FALSE
  /\ connecting' = TRUE
  /\ lastOp' = Op("reconnect", "", "ok", {})
  /\ emitted' = <<>>
  /\ unsaved' = {}
  /\ unbroadcast' = {}
  /\ UNCHANGED <<now, watchedPlayers, allServerPlayers, disk, fsWritable,
                 rustConnected, connPending, bmTimers, savedFrom, ledgerVars, hubVars, bootVars>>

\* The process stops and starts again: module state is rebuilt, the file is read.
Restart ==
  /\ watchedPlayers' = loadWatchedPlayers(disk)
  /\ allServerPlayers' = EmptyMap
  /\ rustConnected' = FALSE
  /\ connPending' = FALSE
  /\ retryPending' = FALSE
  /\ connecting' = TRUE
  /\ bmTimers' = 0
  /\ lastOp' = Op("restart", "", "ok", {})
  /\ emitted' = <<>>
  /\ unsaved' = {}
  /\ unbroadcast' = {}
  /\ UNCHANGED <<now, disk, fsWritable, savedFrom, ledgerVars, hubVars, bootVars>>

Next ==
  \/ Tick
  \/ \E key \in Keys \cup {""}, name \in Names \cup {""}, sk \in Skew : AddSpy(key, name, sk)
  \/ \E key \in Keys, sk \in Skew : RemoveSpy(key, sk)
  \/ \E members \in Snapshots, sk \in Skew : RefreshTeam(members, sk)
  \/ \E members \in Snapshots, sk \in Skew : HandleTeamChanged(members, sk)
  \/ \E resp \in PollResponse, sk \in Skew : FetchBM(resp, sk)
  \/ \E sk \in Skew : PeriodicSave(sk)
  \/ Connected
  \/ \E members \in Snapshots, sk \in Skew : ConnectedResume(members, sk)
  \/ Disconnected
  \/ Reconnect
  \/ Restart

Spec == Init /\ [][Next]_vars

\* The game-feed connection on its own, with the handlers it feeds and the
\* dashboard's watch actions.  The reconnect timer of setTimeout fires once it
\* is armed (Node runs every due timer), which is the weak fairness of Reconnect.
NextFeed ==
  \/ Tick
  \/ \E key \in Keys \cup {""}, name \in Names \cup {""}, sk \in Skew : AddSpy(key, name, sk)
  \/ \E key \in Keys, sk \in Skew : RemoveSpy(key, sk)
  \/ \E members \in Snapshots, sk \in Skew : RefreshTeam(members, sk)
  \/ Connected
  \/ \E members \in Snapshots, sk \in Skew : ConnectedResume(members, sk)
  \/ Disconnected
  \/ Reconnect

SpecFeed == Init /\ [][NextFeed]_vars /\ WF_vars(Reconnect)

\* ----------------------------------------------------------- ledger actions
\* Ledger handlers run to completion; concurrent requests are their interleavings.
CommitLedger(g, op) ==
  /\ Len(g.jr) <= MaxRequests
  /\ joinRequests' = g.jr
  /\ clanMembers' = g.cm
  /\ joinFile' = g.jrFile
  /\ membersFile' = g.cmFile
  /\ ledgerOp' = [op EXCEPT !.reply = g.reply]

WsSubmit(req) ==
  /\ CommitLedger(submitJoinRequest(BeginLedger, req),
                  LedgerOp("submit", "ws", LoginName(req), "", "", ""))
  /\ UNCHANGED <<envAdminSet, trackerVars, hubVars, bootVars>>

HttpJoin(body) ==
  /\ CommitLedger(httpJoin(BeginLedger, body),
                  LedgerOp("submit", "http", LoginName(body.request), "", "", ""))
  /\ UNCHANGED <<envAdminSet, trackerVars, hubVars, bootVars>>

WsUpdate(id, action) ==
  /\ CommitLedger(updateJoinRequest(BeginLedger, id, action),
                  LedgerOp("update", "ws", "", id, action, ""))
  /\ UNCHANGED <<envAdminSet, trackerVars, hubVars, bootVars>>

HttpApprove(body) ==
  /\ CommitLedger(httpApprove(BeginLedger, body, envAdminSet),
                  LedgerOp("update", "http", "", body.id, "approve", ""))
  /\ UNCHANGED <<envAdminSet, trackerVars, hubVars, bootVars>>

WsLogin(name, password) ==
  /\ CommitLedger(memberLogin(BeginLedger, name, password),
                  LedgerOp("login", "ws", "", "", "", ""))
  /\ UNCHANGED <<envAdminSet, trackerVars, hubVars, bootVars>>

HttpLogin(body) ==
  /\ CommitLedger(httpLogin(BeginLedger, body), LedgerOp("login", "http", "", "", "", ""))
  /\ UNCHANGED <<envAdminSet, trackerVars, hubVars, bootVars>>

\* A dashboard adds a watch while the ledger is in use: handleDashMsg case 'addSpy'.
DashAddSpy(key, name) ==
  /\ Commit(addSpy(Begin(0), key, name), Op("addSpy", key, "", {}))
  /\ ledgerOp' = LedgerOp("addSpy", "ws", "", key, "",
                          IF addWatchOk(Begin(0), key) THEN "ok" ELSE "fail")
  /\ UNCHANGED <<fsWritable, rustConnected, connPending, retryPending, connecting, bmTimers,
                 joinRequests, clanMembers, joinFile, membersFile, envAdminSet, hubVars, bootVars>>

\* The process stops and starts again: the ledger is read from its files.
LedgerRestart ==
  /\ joinRequests' = loadJoinRequests(joinFile)
  /\ clanMembers' = loadClanMembers(membersFile)
  /\ ledgerOp' = LedgerOp("restart", "", "", "", "", "")
  /\ UNCHANGED <<joinFile, membersFile, envAdminSet, trackerVars, hubVars, bootVars>>

InitLedger == TrackerInit /\ LedgerInit /\ envAdminSet \in BOOLEAN /\ HubInit /\ BootInit

NextLedger ==
  \/ \E req \in JoinInput : WsSubmit(req)
  \/ \E body \in JoinBodies : HttpJoin(body)
  \/ \E id \in ReqIds, action \in UpdateActions : WsUpdate(id, action)
  \/ \E body \in ApproveBodies : HttpApprove(body)
  \/ \E name \in LoginNames, password \in LoginPasswords : WsLogin(name, password)
  \/ \E body \in LoginBodies : HttpLogin(body)
  \/ \E key \in SteamIds \cup {""}, name \in Names : DashAddSpy(key, name)
  \/ LedgerRestart

SpecLedger == InitLedger /\ [][NextLedger]_vars

\* -------------------------------------------------------------- hub actions
\* The sockets take the messages of a handler run; the set of sockets is socks.
HubDeliver(socks, out, sender) ==
  /\ delivered' = Flush(socks, NoMessages, Addressed(out, sender))
  /\ firstMsg' = [c \in Clients |->
                    IF socks[c] = "none" THEN ""
                    ELSE IF firstMsg[c] = "" /\ delivered'[c] # <<>>
                    THEN Head(delivered'[c]).type
                    ELSE firstMsg[c]]
  /\ published' = Addressed(out, sender)

\* wss.on('connection')
HubConnect(c) ==
  /\ sock[c] = "none"
  /\ sock' = [sock EXCEPT ![c] = "open"]
  /\ HubDeliver(sock', connection(Begin(0)).out, c)
  /\ UNCHANGED <<trackerVars, ledgerVars, bootVars>>

\* The socket of a connected dashboard stops being usable; no handler runs yet.
HubSocketFails(c, how) ==
  /\ sock[c] = "open"
  /\ sock' = [sock EXCEPT ![c] = how]
  /\ delivered' = NoMessages
  /\ published' = <<>>
  /\ UNCHANGED <<firstMsg, trackerVars, ledgerVars, bootVars>>

\* ws.on('close') / ws.on('error'): wsClients.delete(ws)
HubClose(c) ==
  /\ sock[c] # "none"
  /\ sock' = [sock EXCEPT ![c] = "none"]
  /\ HubDeliver(sock', <<>>, "")
  /\ UNCHANGED <<trackerVars, ledgerVars, bootVars>>

\* A message of the dashboard c reaches handleDashMsg.
HubRequestState(c) ==
  /\ sock[c] \in {"open", "broken"}
  /\ HubDeliver(sock, requestState(Begin(0)).out, c)
  /\ UNCHANGED <<sock, trackerVars, ledgerVars, bootVars>>

HubAddSpy(c, key, name) ==
  /\ sock[c] \in {"open", "broken"}
  /\ (key \in DOMAIN watchedPlayers \/ DOMAIN watchedPlayers = {})
  /\ Commit(addSpy(Begin(0), key, name),
            Op("addSpy", key, IF addWatchOk(Begin(0), key) THEN "ok" ELSE "fail", {}))
  /\ HubDeliver(sock, addSpy(Begin(0), key, name).out, c)
  /\ UNCHANGED <<sock, fsWritable, rustConnected, connPending, retryPending, connecting, bmTimers,
                 ledgerVars, bootVars>>

HubRemoveSpy(c, key) ==
  /\ sock[c] \in {"open", "broken"}
  /\ Commit(pushState(removeWatch(Begin(0), key)), Op("removeSpy", key, "ok", {}))
  /\ HubDeliver(sock, pushState(removeWatch(Begin(0), key)).out, c)
  /\ UNCHANGED <<sock, fsWritable, rustConnected, connPending, retryPending, connecting, bmTimers,
                 ledgerVars, bootVars>>

\* A poll while dashboards are connected.
HubFetchBM(resp) ==
  /\ bmTimers > 0
  /\ Commit(fetchBMPlayers(Begin(0), resp),
            Op("fetchBM", "", resp.kind, OnlineIds(Players(resp.included))))
  /\ HubDeliver(sock, fetchBMPlayers(Begin(0), resp).out, "")
  /\ UNCHANGED <<sock, fsWritable, rustConnected, connPending, retryPending, connecting, bmTimers,
                 ledgerVars, bootVars>>

\* The hub is followed from the state in which the game feed has connected with
\* an empty team and the poll timer runs.
InitHub ==
  /\ now = 1
  /\ watchedPlayers = EmptyMap
  /\ allServerPlayers = EmptyMap
  /\ disk = [exists |-> FALSE, arr |-> <<>>]
  /\ fsWritable = TRUE
  /\ rustConnected = TRUE
  /\ connPending = FALSE
  /\ retryPending = FALSE
  /\ connecting = FALSE
  /\ bmTimers = 1
  /\ lastOp = Op("connectedResume", "", "ok", {})
  /\ emitted = <<>>
  /\ unsaved = {}
  /\ unbroadcast = {}
  /\ savedFrom = EmptyMap
  /\ LedgerInit
  /\ envAdminSet = FALSE
  /\ HubInit
  /\ BootInit

NextHub ==
  \/ \E c \in Clients : HubConnect(c)
  \/ \E c \in Clients, how \in {"closing", "broken"} : HubSocketFails(c, how)
  \/ \E c \in Clients : HubClose(c)
  \/ \E c \in Clients : HubRequestState(c)
  \/ \E c \in Clients, key \in Keys \cup {""}, name \in Names \cup {""} : HubAddSpy(c, key, name)
  \/ \E c \in Clients, key \in Keys : HubRemoveSpy(c, key)
  \/ \E resp \in PollResponse : HubFetchBM(resp)

SpecHub == InitHub /\ [][NextHub]_vars

\* ----------------------------------------------------- start-up from files
\* The process starts on whatever the three files hold.
InitStartup ==
  /\ TrackerInit /\ LedgerInit /\ envAdminSet = FALSE /\ HubInit
  /\ bootFiles \in [Collections -> FileKinds]
  /\ bootMem = [c \in Collections |-> "empty"]
  /\ booted = FALSE
  /\ exited = FALSE
  /\ crash = NoCrash
  /\ protoText = <<>>
  /\ patchLog = NoPatch

\* Module load runs the three load functions.
ModuleLoad ==
  /\ ~booted /\ ~exited
  /\ booted' = TRUE
  /\ bootMem' = moduleLoad(bootFiles)
  /\ UNCHANGED <<bootFiles, exited, crash, patchVars, trackerVars, ledgerVars,
                 hubVars>>

\* wss.on('connection'): send(ws, {type:'fullState', data: buildState()});
\* a TypeError of buildState leaves the listener uncaught.
StartupConnection ==
  /\ booted /\ ~exited
  /\ exited' = (buildStateThrows(bootMem) /\ exitsOn("TypeError"))
  /\ UNCHANGED <<bootFiles, bootMem, booted, crash, patchVars, trackerVars, ledgerVars,
                 hubVars>>

\* GET /requests: joinRequests.map(..) outside any try.
StartupGetRequests ==
  /\ booted /\ ~exited
  /\ exited' = (bootMem["requests"] \in Unreadable /\ exitsOn("TypeError"))
  /\ UNCHANGED <<bootFiles, bootMem, booted, crash, patchVars, trackerVars, ledgerVars,
                 hubVars>>

\* handleDashMsg case 'memberLogin': clanMembers.find(..) inside the async
\* handler, whose rejection nobody handles.
StartupLogin ==
  /\ booted /\ ~exited
  /\ exited' = (bootMem["members"] \in Unreadable /\ exitsOn("TypeError"))
  /\ UNCHANGED <<bootFiles, bootMem, booted, crash, patchVars, trackerVars, ledgerVars,
                 hubVars>>

\* handleDashMsg case 'submitJoinRequest' with a valid request of a new login
\* key: joinRequests.find, clanMembers.find, unshift, saveJoinRequestsFile,
\* buildState.
StartupSubmit ==
  /\ booted /\ ~exited
  /\ IF bootMem["requests"] \in Unreadable \/ bootMem["members"] \in Unreadable
     THEN exited' = exitsOn("TypeError") /\ UNCHANGED <<bootFiles, bootMem>>
     ELSE /\ exited' = FALSE
          /\ bootMem' = [bootMem EXCEPT !["requests"] = "list"]
          /\ bootFiles' = [bootFiles EXCEPT !["requests"] = "list"]
  /\ UNCHANGED <<booted, crash, patchVars, trackerVars, ledgerVars,
                 hubVars>>

\* A supervisor starts the exited process again on the same files.
StartupAgain ==
  /\ exited
  /\ exited' = FALSE
  /\ booted' = FALSE
  /\ bootMem' = [c \in Collections |-> "empty"]
  /\ crash' = NoCrash
  /\ UNCHANGED <<bootFiles, patchVars, trackerVars, ledgerVars,
                 hubVars>>

\* An exception no frame catches reaches the uncaughtException handler.
UncaughtException(err) ==
  /\ booted /\ ~exited
  /\ crash' = [via |-> "uncaughtException", err |-> err, outcome |-> uncaughtException(err)]
  /\ exited' = (uncaughtException(err) = "exit1")
  /\ UNCHANGED <<bootFiles, bootMem, booted, patchVars, trackerVars, ledgerVars,
                 hubVars>>

\* A promise nobody handles rejects, for example the one of the async
\* handleDashMsg: the reason reaches the unhandledRejection handler.
UnhandledRejection(reason) ==
  /\ booted /\ ~exited
  /\ crash' = [via |-> "unhandledRejection", err |-> reason,
               outcome |-> unhandledRejection(reason)]
  /\ exited' = (unhandledRejection(reason) = "exit1")
  /\ UNCHANGED <<bootFiles, bootMem, booted, patchVars, trackerVars, ledgerVars,
                 hubVars>>

NextStartup ==
  \/ ModuleLoad
  \/ StartupConnection
  \/ StartupGetRequests
  \/ StartupLogin
  \/ StartupSubmit
  \/ StartupAgain
  \/ \E err \in Errors : UncaughtException(err)
  \/ \E reason \in Errors : UnhandledRejection(reason)

SpecStartup == InitStartup /\ [][NextStartup]_vars

\* ----------------------------------------------------- proto patch actions
\* The proto file holds any text; no patch has run and the bot is not started.
InitPatch ==
  /\ TrackerInit /\ LedgerInit /\ envAdminSet = FALSE /\ HubInit
  /\ bootFiles = [c \in Collections |-> "missing"]
  /\ bootMem = [c \in Collections |-> "empty"]
  /\ booted = FALSE
  /\ exited = FALSE
  /\ crash = NoCrash
  /\ protoText \in ProtoTexts
  /\ patchLog = NoPatch

\* node patch.js
RunPatchJs ==
  /\ protoText' = patchJs(protoText).text
  /\ patchLog' = [by |-> "patch.js", wrote |-> patchJs(protoText).wrote]
  /\ UNCHANGED <<bootFiles, bootMem, booted, exited, crash, trackerVars, ledgerVars,
                 hubVars>>

\* The bot starts: protoCrashProtection runs Fix 1 before anything else.
StartupPatch ==
  /\ protoText' = startupPatch(protoText).text
  /\ patchLog' = [by |-> "bot.js", wrote |-> startupPatch(protoText).wrote]
  /\ UNCHANGED <<bootFiles, bootMem, booted, exited, crash, trackerVars, ledgerVars,
                 hubVars>>

NextPatch ==
  \/ RunPatchJs
  \/ StartupPatch

SpecPatch == InitPatch /\ [][NextPatch]_vars

\* ------------------------------------------------------------ write failures
\* fs.writeFileSync starts or stops failing (disk full, directory read-only).
FsFlip ==
  /\ fsWritable' = ~fsWritable
  /\ UNCHANGED <<now, watchedPlayers, allServerPlayers, disk, rustConnected, connPending,
                 retryPending, connecting, bmTimers, lastOp, emitted, unsaved, unbroadcast,
                 savedFrom, ledgerVars, hubVars, bootVars>>

\* handleDashMsg case 'removeSpy' while the ledger is in use.
DashRemoveSpy(key) ==
  /\ Commit(pushState(removeWatch(Begin(0), key)), Op("removeSpy", key, "ok", {}))
  /\ ledgerOp' = LedgerOp("removeSpy", "ws", "", key, "", "ok")
  /\ UNCHANGED <<fsWritable, rustConnected, connPending, retryPending, connecting, bmTimers,
                 joinRequests, clanMembers, joinFile, membersFile, envAdminSet, hubVars,
                 bootVars>>

\* The requests sent while writes may fail: one that is accepted once and one
\* without a secret.
DiskRequests == {r \in JoinInput : r.id = "r1" /\ r.name # "" /\ r.passcode = ""}

\* The snapshots delivered while writes may fail: the one member on or off.
DiskSnapshots == {<<m>> : m \in {t \in TeamMember : t.isOnline # "undef"}}

\* The three savers under write failures, followed from the state in which the
\* game feed has connected with an empty team.
InitDisk == InitHub

NextDisk ==
  \/ FsFlip
  \/ \E key \in SteamIds \cup {""}, name \in Names : DashAddSpy(key, name)
  \/ \E key \in SteamIds : DashRemoveSpy(key)
  \/ \E members \in DiskSnapshots : RefreshTeam(members, 0)
  \/ PeriodicSave(0)
  \/ \E req \in DiskRequests : WsSubmit(req)
  \/ \E action \in {"approve", "delete"} : WsUpdate("r1", action)

SpecDisk == InitDisk /\ [][NextDisk]_vars

\* ------------------------------------------------------------------- claims
\* The last step was a poll that failed / that went through.
FailedPollStep == lastOp'.op = "fetchBM" /\ lastOp'.kind \in {"neterr", "badjson"}

SuccessfulPollStep == lastOp'.op = "fetchBM" /\ lastOp'.kind \in {"ok", "noincluded"}

EventsFor(events, key) == SelectSeq(events, LAMBDA m : m.key = key)

\* C1: after every handler, a watched player is online exactly when its
\* currentSessionStart is set.
C1_OnlineIffSessionOpen ==
  \A k \in DOMAIN watchedPlayers :
    watchedPlayers[k].online <=> (watchedPlayers[k].currentSessionStart # Null)

\* C1 witness: a player that has closed a session is online again.
C1_Witness ==
  \E k \in DOMAIN watchedPlayers :
    /\ watchedPlayers[k].online
    /\ watchedPlayers[k].currentSessionStart # Null
    /\ watchedPlayers[k].sessions # <<>>

\* C2: every online -> offline change made by a producer appends one session
\* {start, end, ms} with start the open session's start, end the time of the
\* observation, ms = end - start, and adds that ms to totalMs.
C2_CloseAppendsExactSession ==
  [][\A k \in (DOMAIN watchedPlayers) \cap (DOMAIN watchedPlayers') :
       (lastOp'.op # "restart" /\ watchedPlayers[k].online /\ ~watchedPlayers'[k].online)
       => \E e \in now..now' :
            /\ watchedPlayers'[k].sessions =
                 Append(watchedPlayers[k].sessions,
                        [start |-> watchedPlayers[k].currentSessionStart,
                         end |-> e,
                         ms |-> e - watchedPlayers[k].currentSessionStart])
            /\ watchedPlayers'[k].totalMs =
                 watchedPlayers[k].totalMs + (e - watchedPlayers[k].currentSessionStart)]_vars

\* C3: totalMs is the sum of (end - start) over the sessions, in memory and in
\* the record that loadWatchedPlayers builds from the saved file.
C3_TotalIsSumOfSpans ==
  /\ \A k \in DOMAIN watchedPlayers :
       watchedPlayers[k].totalMs = SumSpans(watchedPlayers[k].sessions)
  /\ \A k \in DOMAIN loadWatchedPlayers(disk) :
       loadWatchedPlayers(disk)[k].totalMs = SumSpans(loadWatchedPlayers(disk)[k].sessions)

\* C4: after a restart, a player whose saved record has an open session still
\* has that currentSessionStart.
C4_OpenSessionSurvivesRestart ==
  lastOp.op = "restart" =>
    \A i \in 1..Len(disk.arr) :
      disk.arr[i].currentSessionStart # Null =>
        /\ disk.arr[i].steamId \in DOMAIN watchedPlayers
        /\ watchedPlayers[disk.arr[i].steamId].currentSessionStart
             = disk.arr[i].currentSessionStart

\* C5: after a restart, a player that was mid-session at the save has the
\* totalMs and the sessions its in-memory record had at that save.
C5_ReloadAddsNothing ==
  lastOp.op = "restart" =>
    \A k \in DOMAIN savedFrom :
      savedFrom[k].currentSessionStart # Null =>
        /\ k \in DOMAIN watchedPlayers
        /\ watchedPlayers[k].totalMs = savedFrom[k].totalMs
        /\ watchedPlayers[k].sessions = savedFrom[k].sessions

\* C6: a poll that fails (network error, unparseable body) changes neither the
\* watch list nor the roster table and emits no spyEvent.
C6_FailedPollIsNoOp ==
  [][FailedPollStep
       => /\ watchedPlayers' = watchedPlayers
          /\ allServerPlayers' = allServerPlayers
          /\ emitted' = <<>>]_vars

\* C6 witness: a failed poll has run while a bm_ player is watched and online.
C6_Witness ==
  /\ lastOp.op = "fetchBM" /\ lastOp.kind \in {"neterr", "badjson"}
  /\ \E k \in BMKeys \cap DOMAIN watchedPlayers :
       watchedPlayers[k].online /\ k \in DOMAIN allServerPlayers

\* C7: every change of an online flag is followed, in the same handler, by a
\* saveWatchedPlayers call and by a broadcast.
C7_ChangeSavedAndBroadcast == unsaved = {} /\ unbroadcast = {}

\* C8: a successful poll that does not list a watched bm_ player emits one
\* offline spyEvent and closes one session if the player was online, and emits
\* nothing and leaves totalMs and sessions alone if it was offline; between
\* polls an unlisted bm_ player never goes online.
C8_OfflineOnce ==
  [][\A k \in BMKeys :
       /\ (SuccessfulPollStep /\ k \notin lastOp'.listing /\ k \in DOMAIN watchedPlayers)
            => /\ k \in DOMAIN watchedPlayers'
               /\ ~watchedPlayers'[k].online
               /\ IF watchedPlayers[k].online
                  THEN /\ EventsFor(emitted', k) = <<Msg("all", "spyEvent", k, "offline")>>
                       /\ Len(watchedPlayers'[k].sessions) = Len(watchedPlayers[k].sessions) + 1
                  ELSE /\ EventsFor(emitted', k) = <<>>
                       /\ watchedPlayers'[k].sessions = watchedPlayers[k].sessions
                       /\ watchedPlayers'[k].totalMs = watchedPlayers[k].totalMs
       /\ (lastOp'.op # "fetchBM"
             /\ (k \in DOMAIN watchedPlayers => ~watchedPlayers[k].online)
             /\ (k \in DOMAIN allServerPlayers => ~allServerPlayers[k].online))
          => /\ (k \in DOMAIN watchedPlayers' => ~watchedPlayers'[k].online)
             /\ (k \in DOMAIN allServerPlayers' => ~allServerPlayers'[k].online)]_vars

\* C8 witness: a successful poll ran for a bm_ player that an earlier poll had
\* already taken offline, and emitted nothing.
C8_Witness ==
  /\ lastOp.op = "fetchBM" /\ lastOp.kind \in {"ok", "noincluded"}
  /\ emitted = <<>>
  /\ \E k \in BMKeys \cap DOMAIN watchedPlayers :
       /\ ~watchedPlayers[k].online
       /\ watchedPlayers[k].sessions # <<>>
       /\ k \in DOMAIN allServerPlayers /\ ~allServerPlayers[k].online

\* C9: after a successful poll every bm_ key of the roster table or the watch
\* list is online exactly when the listing holds it.
C9_FullReplace ==
  (lastOp.op = "fetchBM" /\ lastOp.kind \in {"ok", "noincluded"})
    => /\ \A k \in BMKeys \cap DOMAIN allServerPlayers :
            allServerPlayers[k].online <=> (k \in lastOp.listing)
       /\ \A k \in BMKeys \cap DOMAIN watchedPlayers :
            watchedPlayers[k].online <=> (k \in lastOp.listing)

\* C9 witness: a successful poll has taken a known bm_ player offline in both tables.
C9_Witness ==
  /\ lastOp.op = "fetchBM" /\ lastOp.kind = "ok"
  /\ emitted # <<>>
  /\ \E k \in BMKeys \cap DOMAIN watchedPlayers :
       /\ ~watchedPlayers[k].online
       /\ k \in DOMAIN allServerPlayers /\ ~allServerPlayers[k].online

\* C10: a poll timer is live whatever the state of the game feed, also before
\* the feed has connected for the first time.
C10_PollsIndependentOfFeed == bmTimers > 0

\* ------------------------------------------------------------ ledger claims
LoginKeys == {"bob", "al"}

\* The pending requests and the approved members that hold a login key.
PendingWithKey(jr, key) ==
  {i \in 1..Len(jr) : jr[i].status = "pending" /\ LoginKey(jr[i]) = key}

MembersWithKey(cm, key) ==
  {i \in 1..Len(cm) : cm[i].status = "approved" /\ LoginKey(cm[i]) = key}

\* The last step was a submission that passed the field checks.
CheckedSubmitStep ==
  ledgerOp'.op = "submit" /\ ledgerOp'.reply \in {"ok", "pending", "member"}

\* C14: whatever the order in which the WebSocket and HTTP submissions run, a
\* submission whose login key (ignoring case) is already pending is rejected and
\* stores nothing, so that no key ever has two pending requests.
C14_ConcurrentSubmitsStoreOne ==
  [][CheckedSubmitStep =>
       LET k == toLowerCase(ledgerOp'.name) IN
         /\ Cardinality(PendingWithKey(joinRequests', k)) <= 1
         /\ PendingWithKey(joinRequests, k) # {}
              => ledgerOp'.reply = "pending" /\ joinRequests' = joinRequests]_vars

\* C14 witness: POST /join has rejected a submission whose login name differs
\* only by case from the one that is pending.
C14_Witness ==
  /\ ledgerOp.op = "submit" /\ ledgerOp.path = "http" /\ ledgerOp.reply = "pending"
  /\ \E i \in PendingWithKey(joinRequests, toLowerCase(ledgerOp.name)) :
       LoginName(joinRequests[i]) # ledgerOp.name

\* C15: no login key is held by two records among the pending requests and the
\* approved members.
C15_LoginKeyUnique ==
  \A k \in LoginKeys :
    Cardinality(PendingWithKey(joinRequests, k)) + Cardinality(MembersWithKey(clanMembers, k)) <= 1

\* C16: a submission whose login key is held by a pending request or an approved
\* member is rejected and stores nothing; any other submission with id, name and
\* password is put first in joinRequests with status pending.
C16_SubmitRejectsOrInserts ==
  [][ledgerOp'.op = "submit" =>
       LET k == toLowerCase(ledgerOp'.name) IN
         IF PendingWithKey(joinRequests, k) # {} \/ MembersWithKey(clanMembers, k) # {}
         THEN /\ ledgerOp'.reply # "ok"
              /\ joinRequests' = joinRequests
              /\ clanMembers' = clanMembers
         ELSE CheckedSubmitStep =>
              /\ ledgerOp'.reply = "ok"
              /\ Len(joinRequests') = Len(joinRequests) + 1
              /\ Tail(joinRequests') = joinRequests
              /\ Head(joinRequests').status = "pending"
              /\ LoginName(Head(joinRequests')) = ledgerOp'.name
              /\ clanMembers' = clanMembers]_vars

\* C16 witness: a submission was rejected because an approved member holds its key.
C16_Witness ==
  /\ ledgerOp.op = "submit" /\ ledgerOp.reply = "member"
  /\ MembersWithKey(clanMembers, toLowerCase(ledgerOp.name)) # {}
  /\ PendingWithKey(joinRequests, toLowerCase(ledgerOp.name)) = {}

\* The last step was an updateJoinRequest or POST /approve that found its request.
UpdateStep(action) ==
  ledgerOp'.op = "update" /\ ledgerOp'.action = action /\ ledgerOp'.reply = "ok"

\* The request the last step found, as it was before the step.
Target == joinRequests[findIndex(joinRequests, ledgerOp'.id)]

\* C17: a status only changes from pending to approved or denied, and a request
\* is only removed while it is pending or approved.
C17_StatusOnlyLeavesPending ==
  [][/\ Len(joinRequests') = Len(joinRequests)
          => \A i \in 1..Len(joinRequests) :
               joinRequests'[i].status # joinRequests[i].status
                 => /\ joinRequests[i].status = "pending"
                    /\ joinRequests'[i].status \in {"approved", "denied"}
     /\ UpdateStep("delete") => Target.status \in {"pending", "approved"}
     /\ UpdateStep("removeMember")
          => \A i \in 1..Len(joinRequests) :
               joinRequests[i].id = ledgerOp'.id
                 => joinRequests[i].status \in {"pending", "approved"}]_vars

\* C18: deleting an approved request (delete or removeMember) deletes its
\* member in the same step: no member has the request's id and a login with
\* its name and password fails.
C18_DeleteRevokesMember ==
  [][((UpdateStep("delete") \/ UpdateStep("removeMember")) /\ Target.status = "approved")
       => /\ \A i \in 1..Len(clanMembers') : clanMembers'[i].id # ledgerOp'.id
          /\ ~findLogin(clanMembers', LoginName(Target), "p")]_vars

\* C19: members and approved requests correspond one to one by id.
C19_MembersMatchApproved ==
  /\ \A i \in 1..Len(clanMembers) :
       \E j \in 1..Len(joinRequests) :
         joinRequests[j].id = clanMembers[i].id /\ joinRequests[j].status = "approved"
  /\ \A j \in 1..Len(joinRequests) :
       joinRequests[j].status = "approved"
         => Cardinality({i \in 1..Len(clanMembers) : clanMembers[i].id = joinRequests[j].id}) = 1

\* C20: an approval of a request whose login key already has a member leaves
\* clanMembers and its file as they are and leaves the request approved.
C20_ApproveIdempotent ==
  [][(UpdateStep("approve") /\ memberWithKey(clanMembers, LoginKey(Target)))
       => /\ clanMembers' = clanMembers
          /\ membersFile' = membersFile
          /\ joinRequests'[findIndex(joinRequests, ledgerOp'.id)].status = "approved"]_vars

\* C20 witness: a request was approved whose login key belongs to the member of
\* another request.
C20_Witness ==
  /\ ledgerOp.op = "update" /\ ledgerOp.action = "approve" /\ ledgerOp.reply = "ok"
  /\ LET r == joinRequests[findIndex(joinRequests, ledgerOp.id)] IN
       /\ r.status = "approved"
       /\ \E i \in 1..Len(clanMembers) :
            LoginKey(clanMembers[i]) = LoginKey(r) /\ clanMembers[i].id # r.id

\* --------------------------------------------------------------- hub claims
\* The messages of a step that are meant for the socket c, in publish order.
AddressedTo(msgs, c) == SelectSeq(msgs, LAMBDA m : m.to = "all" \/ m.to = c)

Broadcasts(msgs) == SelectSeq(msgs, LAMBDA m : m.to = "all")

HasType(msgs, type) == \E i \in 1..Len(msgs) : msgs[i].type = type

\* C11: the step that connects a dashboard writes one fullState to its socket
\* and nothing else, a socket outside wsClients is written nothing, and the
\* first message of every connected socket is that fullState.
C11_SnapshotFirst ==
  [][\A c \in Clients :
       /\ (sock[c] = "none" /\ sock'[c] # "none")
            => delivered'[c] = <<Msg(c, "fullState", "", "")>>
       /\ (sock[c] = "none" /\ sock'[c] = "none") => delivered'[c] = <<>>
       /\ sock'[c] # "none" => firstMsg'[c] = "fullState"]_vars

\* C11 witness: a connected dashboard that got its fullState first is written
\* a spyEvent.
C11_Witness ==
  \E c \in Clients :
    sock[c] = "open" /\ firstMsg[c] = "fullState" /\ HasType(delivered[c], "spyEvent")

\* C12 as stated: every socket in wsClients is written every message of the
\* step that is meant for it.
C12_EverySubscriberReceives ==
  [][\A c \in Clients :
       sock'[c] # "none" => delivered'[c] = AddressedTo(published', c)]_vars

\* C12: every socket in wsClients that is open and whose send does not throw is
\* written the messages of the step meant for it, each once and in publish
\* order; a socket in wsClients that is not open, or whose send throws, is
\* written nothing and stays in wsClients.
C12_OpenSubscribersReceiveInOrder ==
  [][\A c \in Clients :
       /\ sock'[c] = "open" => delivered'[c] = AddressedTo(published', c)
       /\ sock'[c] # "open" => delivered'[c] = <<>>
       /\ (sock[c] \in {"closing", "broken"} /\ published' # <<>>) => sock'[c] = sock[c]]_vars

\* C12 witness: one step wrote several messages to an open socket while another
\* socket of wsClients, not open, was written none.
C12_Witness ==
  \E c, d \in Clients :
    /\ sock[c] = "open" /\ Len(delivered[c]) >= 2
    /\ sock[d] \in {"closing", "broken"} /\ delivered[d] = <<>>

\* C13: with a socket in wsClients that cannot be written, every open socket is
\* still written every broadcast of the step, the handler runs to its final
\* pushState, and the online flag it changed stays changed.
C13_FailureIsolated ==
  [][(\E d \in Clients : sock[d] \in {"closing", "broken"})
       => /\ \A c \in Clients :
               (sock[c] = "open" /\ sock'[c] = "open")
                 => Broadcasts(delivered'[c]) = Broadcasts(published')
          /\ HasType(published', "spyEvent")
               => /\ published'[Len(published')].type = "stateUpdate"
                  /\ \A i \in 1..Len(published') :
                       published'[i].type = "spyEvent"
                         => /\ published'[i].key \in DOMAIN watchedPlayers'
                            /\ watchedPlayers'[published'[i].key].online
                                 <=> (published'[i].event = "online")]_vars

\* C13 witness: the first socket of wsClients cannot be written and the second
\* one was written a spyEvent.
C13_Witness ==
  /\ sock["c1"] \in {"closing", "broken"}
  /\ sock["c2"] = "open"
  /\ HasType(delivered["c2"], "spyEvent")

\* ------------------------------------------------- claims on the two producers
\* The observations the claims below range over: members with any name, a
\* missing name or a missing steamId, alone or in an empty team.
AnyNames == {"a", "b", ""}

AnyMember == [steamId : SteamIds \cup {""}, name : AnyNames, isOnline : {"true", "false", "undef"}]

AnySnapshots == {<<>>} \cup {<<m>> : m \in AnyMember}

SpyEvents(h) == SelectSeq(h.out, LAMBDA m : m.type = "spyEvent")

\* online, currentSessionStart, sessions and totalMs of two watched records agree.
SameAccounting(a, b) ==
  /\ a.online = b.online
  /\ a.currentSessionStart = b.currentSessionStart
  /\ a.sessions = b.sessions
  /\ a.totalMs = b.totalMs

\* C26: a team member whose isOnline field is missing is dropped: in every
\* reachable state, applying a snapshot with such a member changes no watched
\* player's online flag, sessions or totalMs and emits no spyEvent.
C26_MalformedMemberDropped ==
  \A m \in AnyMember :
    m.isOnline = "undef" =>
      LET h == updateSpyFromTeam(Begin(0), <<m>>) IN
        /\ SpyEvents(h) = <<>>
        /\ DOMAIN h.wp = DOMAIN watchedPlayers
        /\ \A k \in DOMAIN watchedPlayers :
             /\ h.wp[k].online = watchedPlayers[k].online
             /\ h.wp[k].sessions = watchedPlayers[k].sessions
             /\ h.wp[k].totalMs = watchedPlayers[k].totalMs

C28_ReconnectUntilConnected ==
  /\ (~rustConnected) ~> (connecting \/ rustConnected)
  /\ retryPending ~> connecting

\* C28 witness: a second disconnect has armed the timer again: the feed was
\* connected before (the poll timers run) and is down with the timer armed.
C28_Witness ==
  /\ retryPending
  /\ ~rustConnected
  /\ bmTimers = 2

\* C29: in every reachable state a BattleMetrics poll changes no watch-list or
\* roster entry whose key lacks the 'bm_' prefix, a team snapshot changes no
\* 'bm_' entry, and no BattleMetrics key is a steam id.
C29_ProducersDisjoint ==
  /\ \A id \in BMPlayerIds : startsWithBM(BMKey(id)) /\ BMKey(id) \notin SteamIds
  /\ \A s \in SteamIds \cup {""} : ~startsWithBM(s)
  /\ \A resp \in PollResponse, sk \in Skew :
       LET h == fetchBMPlayers(Begin(sk), resp) IN
         /\ \A k \in (DOMAIN watchedPlayers \cup DOMAIN h.wp) \ BMKeys :
              k \in DOMAIN watchedPlayers /\ k \in DOMAIN h.wp /\ h.wp[k] = watchedPlayers[k]
         /\ \A k \in (DOMAIN allServerPlayers \cup DOMAIN h.sp) \ BMKeys :
              k \in DOMAIN allServerPlayers /\ k \in DOMAIN h.sp /\ h.sp[k] = allServerPlayers[k]
  /\ \A members \in AnySnapshots, sk \in Skew :
       LET h == updateSpyFromTeam(updateSpyFromTeam(Begin(sk), members), members) IN
         /\ \A k \in (DOMAIN watchedPlayers \cup DOMAIN h.wp) \cap BMKeys :
              k \in DOMAIN watchedPlayers /\ k \in DOMAIN h.wp /\ h.wp[k] = watchedPlayers[k]
         /\ \A k \in (DOMAIN allServerPlayers \cup DOMAIN h.sp) \cap BMKeys :
              k \in DOMAIN allServerPlayers /\ k \in DOMAIN h.sp /\ h.sp[k] = allServerPlayers[k]

\* C29 witness: a poll with an empty listing has run while the roster holds an
\* online entry of the game feed and an entry of BattleMetrics.
C29_Witness ==
  /\ lastOp.op = "fetchBM"
  /\ lastOp.kind = "ok"
  /\ lastOp.listing = {}
  /\ "s1" \in DOMAIN allServerPlayers
  /\ allServerPlayers["s1"].online
  /\ "bm_1" \in DOMAIN allServerPlayers

\* C30: in every reachable state an observation that repeats a watched player's
\* current state emits no spyEvent, triggers no save and leaves online,
\* currentSessionStart, sessions and totalMs of every watched player unchanged,
\* and so does a second application of the same team snapshot.
C30_RepeatIsNoOp ==
  [](/\ \A m \in AnyMember, sk \in Skew :
          (m.steamId \in DOMAIN watchedPlayers
             /\ Truthy(m.isOnline) = watchedPlayers[m.steamId].online) =>
            LET h == updateSpyFromTeam(Begin(sk), <<m>>) IN
              /\ SpyEvents(h) = <<>>
              /\ h.saves = 0
              /\ h.disk = disk
              /\ h.t = now
              /\ DOMAIN h.wp = DOMAIN watchedPlayers
              /\ \A k \in DOMAIN watchedPlayers : SameAccounting(h.wp[k], watchedPlayers[k])
              /\ \A k \in DOMAIN watchedPlayers \ {m.steamId} : h.wp[k] = watchedPlayers[k]
     /\ \A members \in AnySnapshots, sk \in Skew :
          LET h1 == updateSpyFromTeam(Begin(sk), members)
              h2 == updateSpyFromTeam(h1, members)
          IN /\ h2.out = h1.out
             /\ h2.saves = h1.saves
             /\ h2.disk = h1.disk
             /\ h2.wp = h1.wp
             /\ h2.t = h1.t
     /\ \A resp \in PollResponse, sk \in Skew :
          (\A k \in DOMAIN watchedPlayers \cap BMKeys :
             watchedPlayers[k].online = (k \in OnlineIds(Players(resp.included)))) =>
            LET h == fetchBMPlayers(Begin(sk), resp) IN
              /\ SpyEvents(h) = <<>>
              /\ h.saves = 0
              /\ h.disk = disk
              /\ h.wp = watchedPlayers)

\* C30 witness: a watched player of the game feed has been online for a while
\* according to the roster, so that a repeated online observation would move
\* the session start if it were taken for a transition.
C30_Witness ==
  /\ "s1" \in DOMAIN watchedPlayers
  /\ watchedPlayers["s1"].online
  /\ watchedPlayers["s1"].currentSessionStart # Null
  /\ watchedPlayers["s1"].currentSessionStart < now
  /\ "s1" \in DOMAIN allServerPlayers
  /\ allServerPlayers["s1"].online

\* ------------------------------------------- claims on replies and snapshots
CredentialFields == {"password", "passcode", "passwordHash"}

\* The secrets in use: the passwords typed and their stored hashes.
Secrets == (LoginPasswords \ {""}) \cup {base64(pw) : pw \in LoginPasswords \ {""}}

\* No record of the list has a credential field or a secret as a value.
NoCredentials(recs) ==
  \A i \in DOMAIN recs :
    /\ (DOMAIN recs[i]) \cap CredentialFields = {}
    /\ \A f \in DOMAIN recs[i] : recs[i][f] \notin Secrets

\* C21: in every reachable state the joinRequests and clanMembers lists of
\* buildState and the answer of GET /requests hold no password, passcode or
\* passwordHash of any request or member.
C21_SnapshotsHoldNoCredentials ==
  /\ NoCredentials(buildStateJoinRequests(joinRequests))
  /\ NoCredentials(buildStateClanMembers(clanMembers))
  /\ NoCredentials(getRequests(joinRequests))

\* C21 witness: a request is stored with the hash of its secret next to
\* a member that has one too.
C21_Witness ==
  /\ joinRequests # <<>>
  /\ clanMembers # <<>>
  /\ \E i \in 1..Len(joinRequests) : joinRequests[i].passwordHash \in Secrets
  /\ \E i \in 1..Len(clanMembers) : clanMembers[i].passwordHash \in Secrets

\* The names and bodies a login is tried with in the claims below.
AnyLoginNames == LoginNames \cup {"bob", "al", "x"}

AnyLoginBodies ==
  {[json |-> TRUE, username |-> n, password |-> pw] : n \in AnyLoginNames, pw \in LoginPasswords}
    \cup {[json |-> FALSE, username |-> "", password |-> ""]}

\* The ledger and its files are as the handler found them.
LedgerSame(g) ==
  /\ g.jr = joinRequests
  /\ g.cm = clanMembers
  /\ g.jrFile = joinFile
  /\ g.cmFile = membersFile

\* What C22 asks of the result g of a login with name and password.
LoginSound(g, name, password) ==
  /\ g.reply = "ok" =>
       \E i \in 1..Len(clanMembers) :
         /\ clanMembers[i].status = "approved"
         /\ toLowerCase(trim(name)) \in {toLowerCase(clanMembers[i].username),
                                         toLowerCase(clanMembers[i].name)}
         /\ clanMembers[i].passwordHash = base64(password)
         /\ g.payload.id = clanMembers[i].id
  /\ (DOMAIN g.payload) \cap CredentialFields = {}
  /\ \A f \in DOMAIN g.payload : g.payload[f] \notin Secrets
  /\ g.reply # "ok" => LedgerSame(g) /\ g.payload = NoPayload

\* C22: in every reachable state a login over the WebSocket or over POST /login
\* answers ok only if an approved member matches the name (trimmed, ignoring
\* case) by username or name and its stored hash is the hash of the password;
\* the reply holds no credential, and a login that is not ok changes nothing.
C22_LoginSound ==
  /\ \A name \in AnyLoginNames, password \in LoginPasswords :
       LoginSound(memberLogin(BeginLedger, name, password), name, password)
  /\ \A body \in AnyLoginBodies :
       LoginSound(httpLogin(BeginLedger, body), body.username, body.password)

\* C22 witness: a login was answered ok while another approved member or a
\* pending request exists.
C22_Witness ==
  /\ ledgerOp.op = "login"
  /\ ledgerOp.reply = "ok"
  /\ \E i \in 1..Len(clanMembers) : clanMembers[i].status = "approved"
  /\ joinRequests # <<>>

\* The handler wrote one message, to its own client, that reports a failure.
OnlyFailureToClient(out, types) ==
  /\ Len(out) = 1
  /\ out[1].to = "client"
  /\ out[1].type \in types
  /\ out[1].event \notin {"", "ok"}

\* C23: in every reachable state a join request the checks reject, an update of
\* an unknown id and an addSpy of an empty or already watched id write one
\* failure message to the client that sent them, broadcast nothing and leave
\* the watch list, joinRequests, clanMembers and the files as they were.
C23_ValidationFailureIsLocal ==
  /\ \A req \in JoinInput :
       LET g == submitJoinRequest(BeginLedger, req) IN
         g.reply # "ok" =>
           /\ OnlyFailureToClient(g.out, {"error", "joinRequestResult"})
           /\ LedgerSame(g)
  /\ \A id \in ReqIds \cup {"r9"}, action \in UpdateActions :
       LET g == updateJoinRequest(BeginLedger, id, action) IN
         (\A i \in 1..Len(joinRequests) : joinRequests[i].id # id) =>
           /\ OnlyFailureToClient(g.out, {"error"})
           /\ LedgerSame(g)
  /\ \A key \in Keys \cup {""}, name \in AnyNames :
       LET h == addSpy(Begin(0), key, name) IN
         (key = "" \/ key \in DOMAIN watchedPlayers) =>
           /\ OnlyFailureToClient(h.out, {"spyResult"})
           /\ h.wp = watchedPlayers
           /\ h.sp = allServerPlayers
           /\ h.disk = disk
           /\ h.saves = 0

\* C23 witness: an addSpy for the watched player was refused while the ledger
\* holds a pending request, so that a duplicate submit would be refused too.
C23_Witness ==
  /\ ledgerOp.op = "addSpy"
  /\ ledgerOp.reply = "fail"
  /\ "s1" \in DOMAIN watchedPlayers
  /\ \E i \in 1..Len(joinRequests) : joinRequests[i].status = "pending"

\* ------------------------------------------------------- claims on the files
\* C24: a file that is missing or does not hold a list of well-formed records
\* is loaded as an empty collection, and the process never exits because of it,
\* neither at load time nor in a later operation that reads the collection.
C24_CorruptFileIsEmptyNeverFatal ==
  /\ ~exited
  /\ booted => \A c \in Collections : bootFiles[c] # "list" => bootMem[c] = "empty"

\* The ledger handler's output: one reply to the client, then the broadcasts.
Types(out) == [i \in 1..Len(out) |-> <<out[i].to, out[i].type>>]

\* C25, while writes fail: every accepted submit, every update of a known id,
\* every accepted addSpy, every removeSpy and every presence transition keeps
\* its in-memory change and sends its replies and broadcasts, and the file is
\* as before.
WriteFailureKeepsChange ==
  /\ \A req \in JoinInput :
       LET g == submitJoinRequest(BeginLedger, req) IN
         g.reply = "ok" =>
           /\ g.jr = <<StoreRequest(req)>> \o joinRequests
           /\ g.jrFile = joinFile
           /\ Types(g.out) = << <<"client", "joinRequestResult">>, <<"all", "stateUpdate">>,
                                <<"all", "newJoinRequest">> >>
  /\ \A id \in ReqIds, action \in UpdateActions :
       LET g == updateJoinRequest(BeginLedger, id, action)
           idx == findIndex(joinRequests, id)
       IN idx # 0 =>
            /\ g.jrFile = joinFile
            /\ g.cmFile = membersFile
            /\ Types(g.out) = << <<"all", "stateUpdate">> >>
            /\ action = "approve" =>
                 /\ g.jr[idx].status = "approved"
                 /\ memberWithKey(g.cm, LoginKey(joinRequests[idx]))
            /\ action = "deny" => g.jr[idx].status = "denied"
            /\ action = "delete" => g.jr = splice(joinRequests, idx)
            /\ action = "removeMember" =>
                 /\ \A i \in 1..Len(g.jr) : g.jr[i].id # id
                 /\ \A i \in 1..Len(g.cm) : g.cm[i].id # id
  /\ \A key \in Keys, name \in Names :
       LET h == addSpy(Begin(0), key, name) IN
         key \notin DOMAIN watchedPlayers =>
           /\ key \in DOMAIN h.wp
           /\ h.disk = disk
           /\ h.saves = 1
           /\ Types(h.out) = << <<"client", "spyResult">>, <<"all", "stateUpdate">> >>
  /\ \A key \in DOMAIN watchedPlayers :
       LET h == pushState(removeWatch(Begin(0), key)) IN
         /\ key \notin DOMAIN h.wp
         /\ h.disk = disk
         /\ Types(h.out) = << <<"all", "stateUpdate">> >>
  /\ \A m \in TeamMember :
       LET h == updateSpyFromTeam(Begin(0), <<m>>) IN
         (m.steamId \in DOMAIN watchedPlayers
            /\ watchedPlayers[m.steamId].online # Truthy(m.isOnline)) =>
           /\ h.wp[m.steamId].online = Truthy(m.isOnline)
           /\ h.disk = disk
           /\ h.saves = 1
           /\ Len(SpyEvents(h)) = 1

\* C25, once writes succeed again: the next save of each collection writes the
\* whole in-memory collection as it then is.
NextWriteSavesCurrent ==
  /\ \A req \in JoinInput :
       LET g == submitJoinRequest(BeginLedger, req) IN
         g.reply = "ok" => g.jrFile = [exists |-> TRUE, arr |-> g.jr]
  /\ \A id \in ReqIds, action \in UpdateActions :
       LET g == updateJoinRequest(BeginLedger, id, action) IN
         findIndex(joinRequests, id) # 0 =>
           /\ g.jrFile = [exists |-> TRUE, arr |-> g.jr]
           /\ (action = "removeMember" \/ Len(g.cm) # Len(clanMembers)) =>
                g.cmFile = [exists |-> TRUE, arr |-> g.cm]
  /\ LET g == saveClanMembersFile(BeginLedger) IN
       g.cmFile = [exists |-> TRUE, arr |-> clanMembers]
  /\ DOMAIN watchedPlayers # {} =>
       LET h == saveWatchedPlayers(Begin(0)) IN
         /\ h.disk.exists
         /\ h.disk.arr = SaveEntries(watchedPlayers, KeyOrder, now, 0).arr
         /\ {h.disk.arr[i].steamId : i \in 1..Len(h.disk.arr)} = DOMAIN watchedPlayers
         /\ h.savedFrom = watchedPlayers
         /\ h.wp = watchedPlayers

\* C25: a failing write rolls nothing back and silences nothing, and the next
\* write trigger writes the state the memory then has.
C25_WriteFailureKeepsMemory ==
  /\ ~fsWritable => WriteFailureKeepsChange
  /\ fsWritable => NextWriteSavesCurrent

\* C25 witness: a submit was accepted while the write failed, so memory is
\* ahead of join_requests.json, and the watch list is ahead of its file too.
C25_Witness ==
  /\ ~fsWritable
  /\ joinRequests # <<>>
  /\ joinFile.arr # joinRequests
  /\ DOMAIN watchedPlayers # {}
  /\ ~disk.exists

\* C34: a poll response that parses but carries no 'included' array is treated
\* as a failed poll: it leaves the watch list and the roster table as they were
\* (no bm_ identity marked offline, no session closed) and emits no spyEvent.
C34_NoListingIsFailedPoll ==
  [][(lastOp'.op = "fetchBM" /\ lastOp'.kind = "noincluded")
       => /\ watchedPlayers' = watchedPlayers
          /\ allServerPlayers' = allServerPlayers
          /\ emitted' = <<>>]_vars

\* C35: at most one BattleMetrics poll timer is active, whatever the number of
\* disconnect/reconnect cycles of the game feed.
C35_OnePollTimer == bmTimers <= 1

\* The spyEvents of one kind that a handler broadcast for one key.
EventsOfKind(events, key, event) ==
  SelectSeq(events, LAMBDA m : m.key = key /\ m.event = event)

\* C36: inside the running process, every change of a watched player's online
\* flag from false to true comes with exactly one 'online' spyEvent for that
\* player, and every change from true to false with exactly one 'offline'
\* spyEvent.
C36_FlagChangeHasOneEvent ==
  [][lastOp'.op # "restart" =>
       \A k \in DOMAIN watchedPlayers' :
         LET was == k \in DOMAIN watchedPlayers /\ watchedPlayers[k].online
             is  == watchedPlayers'[k].online
         IN /\ (~was /\ is) => Len(EventsOfKind(emitted', k, "online")) = 1
            /\ (was /\ ~is) => Len(EventsOfKind(emitted', k, "offline")) = 1]_vars

\* C38: for every key present both in the watch list and in the roster table,
\* the watched player's online flag equals the roster entry's online flag.
C38_WatchAgreesWithRoster ==
  [](\A k \in DOMAIN watchedPlayers \cap DOMAIN allServerPlayers :
       watchedPlayers[k].online = allServerPlayers[k].online)

\* C38 witness: addSpy added a player the roster table already showed online,
\* and the new entry took the roster's flag.
C38_Witness ==
  /\ emitted = <<>>
  /\ \E k \in DOMAIN watchedPlayers \cap DOMAIN allServerPlayers :
       /\ watchedPlayers[k].online /\ allServerPlayers[k].online
       /\ watchedPlayers[k].currentSessionStart = now
       /\ watchedPlayers[k].sessions = <<>>

\* ------------------------------------------------- claims on ledger security
\* No broadcast of the handler run g carries a credential.
BroadcastsClean(g) ==
  \A i \in 1..Len(g.out) :
    g.out[i].to = "all" => NoCredentials(broadcastRecords(g, g.out[i]))

\* C31: no message broadcast to the dashboards by a ledger handler, of any
\* type, holds the password, passcode or passwordHash of a request or member.
C31_BroadcastsHoldNoCredentials ==
  /\ \A req \in JoinInput : BroadcastsClean(submitJoinRequest(BeginLedger, req))
  /\ \A body \in JoinBodies : BroadcastsClean(httpJoin(BeginLedger, body))
  /\ \A id \in ReqIds, action \in UpdateActions :
       BroadcastsClean(updateJoinRequest(BeginLedger, id, action))
  /\ \A body \in ApproveBodies : BroadcastsClean(httpApprove(BeginLedger, body, envAdminSet))

\* C32: an approve, deny, delete or removeMember changes the ledger only for a
\* caller with valid admin credentials: the WebSocket message carries none, and
\* POST /approve without an admin's password changes nothing.
C32_OnlyAdminChangesLedger ==
  /\ \A id \in ReqIds, action \in UpdateActions :
       LedgerSame(updateJoinRequest(BeginLedger, id, action))
  /\ \A body \in ApproveBodies :
       ~isAdmin(clanMembers, body.adminPassword) =>
         LedgerSame(httpApprove(BeginLedger, body, envAdminSet))

\* C33: for every clan member m, removeMember with m's id answers ok and
\* leaves no member with that id.
C33_EveryMemberRevocable ==
  \A i \in 1..Len(clanMembers) :
    LET g == updateJoinRequest(BeginLedger, clanMembers[i].id, "removeMember") IN
      /\ g.reply = "ok"
      /\ \A j \in 1..Len(g.cm) : g.cm[j].id # clanMembers[i].id

\* C37: POST /approve for the id of an existing request leaves the ledger and
\* its files as updateJoinRequest 'approve' does and answers ok, with or
\* without an admin password in the environment.
C37_HttpApproveAsWsApprove ==
  \A body \in ApproveBodies :
    (body.json /\ findIndex(joinRequests, body.id) # 0) =>
      LET a == httpApprove(BeginLedger, body, envAdminSet)
          b == updateJoinRequest(BeginLedger, body.id, "approve")
      IN /\ a.reply = "ok"
         /\ a.jr = b.jr /\ a.cm = b.cm
         /\ a.jrFile = b.jrFile /\ a.cmFile = b.cmFile
         /\ a.jr[findIndex(joinRequests, body.id)].status = "approved"
         /\ memberWithKey(a.cm, LoginKey(joinRequests[findIndex(joinRequests, body.id)]))

\* -------------------------------------------- claims on process-level errors
\* The error is a ProtocolError or its message contains 'missing required'.
IsProtocolShape(err) ==
  ~err.isNull /\ (err.name = "ProtocolError" \/ includesMissingRequired(err.message))

\* C39: an uncaught exception or unhandled rejection that is a ProtocolError or
\* whose message contains 'missing required' does not end the process and
\* changes no presence or ledger state; every other one ends the process with
\* exit code 1.
C39_OnlyProtocolErrorsSwallowed ==
  [][(crash'.via # "" /\ crash' # crash) =>
       IF IsProtocolShape(crash'.err)
       THEN /\ ~exited' /\ booted'
            /\ crash'.outcome = "return"
            /\ UNCHANGED <<bootMem, bootFiles, trackerVars, ledgerVars>>
       ELSE /\ exited'
            /\ crash'.outcome = "exit1"]_vars

\* C39 witness: a rejection that is not a ProtocolError by name but whose
\* message contains 'missing required' was swallowed, and the process runs.
C39_Witness ==
  /\ booted /\ ~exited
  /\ crash.via = "unhandledRejection"
  /\ crash.err.name = "TypeError"
  /\ includesMissingRequired(crash.err.message)
  /\ crash.outcome = "return"

\* ------------------------------------------------------ claims on the patch
\* Token i of t is inside a // comment.
InComment(t, i) ==
  \E j \in 1..(i - 1) : t[j] = "//" /\ \A k \in (j + 1)..(i - 1) : t[k] # "nl"

\* Token i of t is the label of a field declared required.
RequiredLabel(t, i) ==
  /\ t[i] = "required"
  /\ i < Len(t) /\ t[i + 1] \in Whitespace
  /\ ~InComment(t, i)

\* What C40 asks of a first run t -> r1 and a second run r1.text -> r2.
PatchedOnce(t, r1, r2) ==
  /\ Len(r1.text) = Len(t)
  /\ \A i \in 1..Len(t) : ~RequiredLabel(r1.text, i)
  /\ \A i \in 1..Len(t) : ~RequiredLabel(t, i) => r1.text[i] = t[i]
  /\ r2.text = r1.text
  /\ ~r2.wrote

\* C40: after one run of the patch, by patch.js or by the bot's startup, the
\* proto text has no field declared required and all other text is unchanged,
\* and a second run changes nothing and writes nothing.
C40_PatchIdempotent ==
  /\ PatchedOnce(protoText, patchJs(protoText), patchJs(patchJs(protoText).text))
  /\ PatchedOnce(protoText, startupPatch(protoText),
                 startupPatch(startupPatch(protoText).text))

====
